---- MODULE Spec2Model ----
(***************************************************************************)
(* Soil heat-map service: the TTL cache (lib/cache.ts), the /soil-data     *)
(* route handler, the upstream client's retry loop and daily extraction,   *)
(* the grid generator, the boundary loader, the geometry functions, the    *)
(* Home page with its Map instance, the CanvasHeatMap component (debounced *)
(* render, overlay swap) and the per-cell raster pipeline                  *)
(* (idwInterpolation.ts).                                                  *)
(*                                                                         *)
(* One set of variables, several specifications: each specification        *)
(* drives one part of the program and leaves the other parts' variables    *)
(* at their idle values.                                                   *)
(*   SpecCache    - Cache.set / get / has / clear / size under a clock     *)
(*   SpecRoute    - GET /soil-data requests, interleaved at their awaits   *)
(*   SpecRender   - Map and CanvasHeatMap: fetches, viewport events, timers*)
(*   SpecRaster   - one performRender pass, block by block                 *)
(*   SpecFetch    - one fetchSoilForecast call, every upstream answer      *)
(*   SpecGrid     - generatePavlodarGrid and its relatives, row by row     *)
(*   SpecBoundary - fetchNorthKazakhstanBoundary under GET /boundary and   *)
(*                  GET /soil-data, for every state of the GeoJSON file    *)
(*   SpecGeometry - isPointInPolygon and getBoundingBox on rings, points   *)
(*   SpecSimplify - simplifyPolygon, one douglasPeucker call at a time     *)
(*   SpecIdw      - idwInterpolate for every target, sample list, power    *)
(*                  and maxDistance of a small lattice                     *)
(*   SpecApp      - Home and Map: selections, /soil-data responses, hours  *)
(*   SpecExtract  - one point's hourly array, its daily list, the day      *)
(*                  the handler picks                                      *)
(***************************************************************************)
EXTENDS Integers, Sequences, FiniteSets, TLC

VARIABLES
    now,        \* Date.now(), in milliseconds
    cache,      \* Cache.cache: the Map, a function from the stored keys to CacheItem
    absCache,   \* ghost: the store as the specification describes it (key -> {} or {entry})
    ret,        \* ghost: the last cache call made by the driver and what it returned
    req,        \* the /soil-data requests being handled: slot -> handler state
    arrivals,   \* number of requests received so far
    writer,     \* ghost: cache key -> the request and upstream pass that stored the entry
    stated,     \* ghost: (layer, window) -> {} or {time of the last store for it}
    page,       \* Map component state: data, loading, error, layer, fetches in flight
    heat,       \* CanvasHeatMap: mounted, its refs, the timers and listeners it owns, the overlays on the map
    view,       \* the Leaflet map's viewport bounds
    obs,        \* ghost: what the debounce and the renders have done so far
    raster,     \* one performRender pass: its props, the loop position, the image
    fsf,        \* one fetchSoilForecast call: its arguments, the loop position, what it returned
    gg,         \* one grid generation: the function called, its arguments, the row reached, the points pushed
    bl,         \* one boundary load: the caller, the GeoJSON file found on disk, what was loaded, the answer
    geo,        \* one call of a geometry function: its arguments and what it returned
    dp,         \* one simplifyPolygon call: its arguments, the douglasPeucker calls pending, the points kept
    idw,        \* one idwInterpolate call with its own power and maxDistance: arguments and result
    app,        \* Home page and its Map instance: selections, requests in flight, interval timers, the hour
    fx          \* one grid point's forecast: the hourly values, the daily list built from them, the day extracted

cacheGhost == <<absCache, ret>>
routeVars == <<req, arrivals, writer, stated>>
renderVars == <<page, heat, view, obs>>
notCacheVars == <<routeVars, renderVars, raster, fsf, gg, bl, geo, dp, idw, app, fx>>
notRouteVars == <<cacheGhost, renderVars, raster, fsf, gg, bl, geo, dp, idw, app, fx>>
notRenderVars == <<cache, cacheGhost, routeVars, raster, fsf, gg, bl, geo, dp, idw, app, fx>>
notRasterVars == <<cache, cacheGhost, routeVars, renderVars, fsf, gg, bl, geo, dp, idw, app, fx>>
notFetchVars == <<cache, cacheGhost, routeVars, renderVars, raster, gg, bl, geo, dp, idw, app, fx>>
notGridVars == <<cache, cacheGhost, routeVars, renderVars, raster, fsf, bl, geo, dp, idw, app, fx>>
notBoundaryVars == <<cache, cacheGhost, routeVars, renderVars, raster, fsf, gg, geo, dp, idw, app, fx>>
notGeometryVars == <<cache, cacheGhost, routeVars, renderVars, raster, fsf, gg, bl, dp, idw, app, fx>>
notSimplifyVars == <<cache, cacheGhost, routeVars, renderVars, raster, fsf, gg, bl, geo, idw, app, fx>>
notIdwVars == <<cache, cacheGhost, routeVars, renderVars, raster, fsf, gg, bl, geo, dp, app, fx>>
notAppVars == <<cache, cacheGhost, routeVars, renderVars, raster, fsf, gg, bl, geo, dp, idw, fx>>
notExtractVars == <<cache, cacheGhost, routeVars, renderVars, raster, fsf, gg, bl, geo, dp, idw, app>>
vars == <<now, cache, absCache, ret, req, arrivals, writer, stated, page, heat, view, obs,
          raster, fsf, gg, bl, geo, dp, idw, app, fx>>

(***************************************************************************)
(* Optional values: {} is null / undefined, {v} is the value v.            *)
(***************************************************************************)
None == {}
Some(v) == {v}
The(opt) == CHOOSE v \in opt : TRUE

SeqRange(s) == {s[i] : i \in DOMAIN s}
MinOf(S) == CHOOSE x \in S : \A y \in S : x <= y

(***************************************************************************)
(* lib/cache.ts                                                            *)
(***************************************************************************)
defaultTTL == 3600000

\* `ttl || this.defaultTTL`: undefined and 0 are falsy.
EffectiveTTL(ttl) == IF ttl = None \/ ttl = Some(0) THEN defaultTTL ELSE The(ttl)

\* A set that stores nothing, to compare C29 against
CacheSetIgnored(c, key, data, ttl, t) == c

\* Cache.set(key, data, ttl?) at time t.
CacheSet(c, key, data, ttl, t) ==
    [k \in DOMAIN c \cup {key} |->
        IF k = key
        THEN [data |-> data, timestamp |-> t, expiresAt |-> t + EffectiveTTL(ttl)]
        ELSE c[k]]

\* `Date.now() > item.expiresAt`
IsExpired(item, t) == t > item.expiresAt

\* this.cache.delete(key)
CacheDelete(c, key) == [k \in DOMAIN c \ {key} |-> c[k]]

\* The Map after Cache.get(key) or Cache.has(key) at time t: an expired item is deleted.
CacheAfterLookup(c, key, t) ==
    IF key \in DOMAIN c /\ IsExpired(c[key], t) THEN CacheDelete(c, key) ELSE c

\* What Cache.get(key) returns at time t: item.data, or null.
CacheGet(c, key, t) ==
    IF key \notin DOMAIN c THEN None
    ELSE IF IsExpired(c[key], t) THEN None
    ELSE Some(c[key].data)

\* What Cache.has(key) returns at time t.
CacheHas(c, key, t) ==
    IF key \notin DOMAIN c THEN FALSE
    ELSE IF IsExpired(c[key], t) THEN FALSE
    ELSE TRUE

\* Cache.clear()
CacheClear(c) == [k \in {} |-> k]

\* Cache.size()
CacheSize(c) == Cardinality(DOMAIN c)

EmptyCache == [k \in {} |-> k]

(***************************************************************************)
(* The driver of SpecCache: any sequence of set / get / has / clear /      *)
(* size calls and clock advances.                                          *)
(***************************************************************************)
MaxClockSteps == 5
ClockStep == defaultTTL \div 2
TestKeys == {"a", "b"}
TestValues == {"v1", "v2"}
TestTTLs == {None, Some(0), Some(ClockStep), Some(2 * defaultTTL)}

\* ghost: the expiry the specification gives an entry: set time + ttl,
\* ttl defaulting to one hour when it is not passed.
StatedExpiry(ttl, t) == t + (IF ttl = None THEN defaultTTL ELSE The(ttl))

AbsEmpty == [k \in TestKeys |-> None]

\* ghost: the specification's store after a get or has on key at time t.
AbsAfterLookup(a, key, t) ==
    IF a[key] # None /\ t > The(a[key]).expiresAt
    THEN [a EXCEPT ![key] = None]
    ELSE a

NoCall == [op |-> "none", key |-> "", val |-> None, hit |-> FALSE, n |-> 0, at |-> 0,
           expect |-> None]

\* ghost: what the specification says a get or has on key returns at time t.
AbsGet(a, key, t) ==
    IF a[key] # None /\ t <= The(a[key]).expiresAt THEN Some(The(a[key]).data) ELSE None

DoSet(key, data, ttl) ==
    /\ cache' = CacheSet(cache, key, data, ttl, now)
    /\ absCache' = [absCache EXCEPT ![key] =
                        Some([data |-> data, expiresAt |-> StatedExpiry(ttl, now)])]
    /\ ret' = [NoCall EXCEPT !.op = "set", !.key = key, !.at = now]
    /\ UNCHANGED <<now, notCacheVars>>

DoGet(key) ==
    /\ cache' = CacheAfterLookup(cache, key, now)
    /\ absCache' = AbsAfterLookup(absCache, key, now)
    /\ ret' = [NoCall EXCEPT !.op = "get", !.key = key, !.at = now,
                             !.val = CacheGet(cache, key, now),
                             !.hit = CacheGet(cache, key, now) # None,
                             !.expect = AbsGet(absCache, key, now)]
    /\ UNCHANGED <<now, notCacheVars>>

DoHas(key) ==
    /\ cache' = CacheAfterLookup(cache, key, now)
    /\ absCache' = AbsAfterLookup(absCache, key, now)
    /\ ret' = [NoCall EXCEPT !.op = "has", !.key = key, !.at = now,
                             !.hit = CacheHas(cache, key, now),
                             !.expect = AbsGet(absCache, key, now)]
    /\ UNCHANGED <<now, notCacheVars>>

DoClear ==
    /\ cache' = CacheClear(cache)
    /\ absCache' = AbsEmpty
    /\ ret' = [NoCall EXCEPT !.op = "clear", !.at = now]
    /\ UNCHANGED <<now, notCacheVars>>

DoSize ==
    /\ ret' = [NoCall EXCEPT !.op = "size", !.at = now, !.n = CacheSize(cache)]
    /\ UNCHANGED <<now, cache, absCache, notCacheVars>>

ClockAdvance ==
    /\ now < MaxClockSteps * ClockStep
    /\ now' = now + ClockStep
    /\ UNCHANGED <<cache, cacheGhost, notCacheVars>>

CacheIdle ==
    /\ cache = EmptyCache
    /\ absCache = AbsEmpty
    /\ ret = NoCall

(***************************************************************************)
(* GET /soil-data (app/api/soil-data/route.ts)                             *)
(*                                                                         *)
(* A request runs from its arrival to its first real suspension in one     *)
(* step, then one step per settled batch of upstream fetches and per       *)
(* elapsed inter-batch delay.  Requests interleave at those suspensions.   *)
(***************************************************************************)
BATCH_SIZE == 10
DELAY_MS == 1100
\* A one-hour lifetime for forecast entries, to compare C3 against
ForecastTTLAsDefault == defaultTTL
ForecastTTL == 7200000

MaxConcurrent == 2      \* request slots: requests being handled at the same time
MaxArrivals == 2        \* requests received in one behaviour
MaxHours == 3           \* hours the clock runs for
MaxDays == 2            \* largest `days` parameter sent
MaxDay == 1             \* largest `day` parameter sent
ForecastGridSize == 11  \* points generatePavlodarGrid(0.3, boundary) returns
CurrentGridSize == 11   \* points generatePavlodarGrid(0.2, boundary) returns

HourMs == 60 * 60 * 1000
Slots == 1 .. MaxConcurrent
LayerParams == {"moisture", "temperature", "wind", ""}
DaysParams == 1 .. MaxDays
DayParams == 0 .. MaxDay

\* A layer check that only rejects the missing parameter, to compare C11 against
IsValidLayerIfPresent(layer) == layer # ""

\* `!layer || (layer !== 'moisture' && layer !== 'temperature')` is false
IsValidLayer(layer) == layer # "" /\ (layer = "moisture" \/ layer = "temperature")

\* `forecastDays > 1 || selectedDay > 0`
IsForecast(days, day) == days > 1 \/ day > 0

\* A forecast key without the window, to compare C4 against
ForecastKeyWithoutWindow(layer, days) == <<"forecast", layer>>

\* `forecast-${layer}-${forecastDays}d`
ForecastCacheKey(layer, days) == <<"forecast", layer, days>>

\* `soil-data-${layer}`
CurrentCacheKey(layer) == <<"soil-data", layer>>

\* generatePavlodarGrid(step, boundary): the grid, as the sequence of its points' ids
GridPoints(kind) ==
    IF kind = "forecast" THEN [i \in 1 .. ForecastGridSize |-> i]
    ELSE [i \in 1 .. CurrentGridSize |-> i]

\* gridPoints.slice(i, i + BATCH_SIZE), i counted from 0
BatchAt(grid, i) ==
    SubSeq(grid, i + 1, IF i + BATCH_SIZE < Len(grid) THEN i + BATCH_SIZE ELSE Len(grid))

\* The upstream outcomes the model draws for one batch: every fetch succeeds,
\* the batch's first fetch fails, or every fetch of the batch fails.
FailSets(batch) == {{}, {batch[1]}, SeqRange(batch)}

\* fetchSoilForecast(point, layer, forecastDays) when the upstream answers: one
\* entry per day, each naming the day its noon sample belongs to.
ForecastResult(p, days) == [p |-> p, forecast |-> [d \in 1 .. days |-> d - 1]]

\* fetchSoilData(point, layer) when the upstream answers
CurrentResult(p) == [p |-> p, day |-> 0]

\* Promise.all over a batch: one result per point, null for a failed fetch
BatchResults(batch, failed, days) ==
    [i \in 1 .. Len(batch) |->
        IF batch[i] \in failed THEN None ELSE Some(ForecastResult(batch[i], days))]

ErrorResponse(code) ==
    [status |-> code, data |-> <<>>, totalPoints |-> 0, validPoints |-> 0]

\* `forecast.forecast[selectedDay]` is an object (truthy), not undefined
HasDay(f, day) == day + 1 <= Len(The(f).forecast)

\* Lines 90-165: the response built from forecastData for the selected day.
\* `forecast.forecast[selectedDay]` on a null element throws, and the handler's
\* catch answers 500.
ForecastResponse(forecastData, day) ==
    IF \E i \in DOMAIN forecastData : forecastData[i] = None
    THEN ErrorResponse(500)
    ELSE LET kept == SelectSeq(forecastData, LAMBDA f : HasDay(f, day))
             soil == [i \in 1 .. Len(kept) |->
                        [p |-> The(kept[i]).p, day |-> The(kept[i]).forecast[day + 1]]]
         IN  [status |-> 200, data |-> soil,
              totalPoints |-> Len(forecastData), validPoints |-> Len(soil)]

\* fetchAllSoilData: results.filter(result => result !== null)
ValidResults(grid, failed) ==
    LET ok == SelectSeq(grid, LAMBDA p : p \notin failed)
    IN  [i \in 1 .. Len(ok) |-> CurrentResult(ok[i])]

\* Lines 213-219: the current-conditions response
CurrentResponse(grid, soilData) ==
    [status |-> 200, data |-> soilData,
     totalPoints |-> Len(grid), validPoints |-> Len(soilData)]

IdleReq ==
    [pc |-> "idle", layer |-> "", days |-> 0, day |-> 0, kind |-> "none",
     i |-> 0, results |-> <<>>, due |-> 0, inflight |-> 0,
     resp |-> ErrorResponse(0),
     \* ghost fields
     fresh |-> FALSE, refetch |-> FALSE, hit |-> FALSE, src |-> None,
     boundaryLoads |-> 0, upstream |-> 0, stored |-> FALSE, overwrote |-> None]

\* ghost: the entry a request belongs to, as the specification names it
Logical(layer, kind, days) == <<layer, kind, IF kind = "forecast" THEN days ELSE 0>>
LogicalOf(q) == Logical(q.layer, q.kind, q.days)
LogicalIds ==
    {Logical(l, "current", 0) : l \in LayerParams}
    \cup {Logical(l, "forecast", d) : l \in LayerParams, d \in DaysParams}

\* ghost: the lifetime the specification gives an entry
StatedTTL(kind) == IF kind = "current" THEN HourMs ELSE 2 * HourMs
StatedFresh(layer, kind, days, t) ==
    LET s == stated[Logical(layer, kind, days)]
    IN  s # None /\ t <= The(s) + StatedTTL(kind)
StatedExpired(layer, kind, days, t) ==
    LET s == stated[Logical(layer, kind, days)]
    IN  s # None /\ t > The(s) + StatedTTL(kind)

\* ghost: who stored an entry, and what its upstream pass returned
PassInfo(q, ok, total) ==
    [layer |-> q.layer, kind |-> q.kind, days |-> q.days, day |-> q.day,
     ok |-> ok, total |-> total]

SetWriter(key, info) ==
    [k \in DOMAIN writer \cup {key} |-> IF k = key THEN info ELSE writer[k]]

\* ghost: the previous holder of an entry about to be replaced
Overwritten(key) == IF key \in DOMAIN cache THEN Some(writer[key]) ELSE None

OkPoints(results) == {The(results[i]).p : i \in {j \in DOMAIN results : results[j] # None}}

\* A request is received on the first slot that handles none
FreeSlot(r) ==
    /\ req[r].pc \in {"idle", "done"}
    /\ \A s \in Slots : s < r => req[s].pc \notin {"idle", "done"}
    /\ arrivals < MaxArrivals

\* Lines 13-23: the layer parameter is rejected
ArriveInvalid(r) ==
    /\ FreeSlot(r)
    /\ \E layer \in LayerParams :
         /\ ~IsValidLayer(layer)
         /\ req' = [req EXCEPT ![r] = [IdleReq EXCEPT !.pc = "done", !.layer = layer,
                                         !.kind = "invalid",
                                         !.resp = ErrorResponse(400)]]
    /\ arrivals' = arrivals + 1
    /\ UNCHANGED <<now, cache, writer, stated, notRouteVars>>

\* Lines 28-37 and 86-165: a forecast request answered from the cache.
\* Lines 28-70: a forecast request that misses: it loads the boundary, builds
\* the grid and starts the first batch of fetches.
ArriveForecast(r) ==
    /\ FreeSlot(r)
    /\ \E layer \in LayerParams, days \in DaysParams, day \in DayParams :
         /\ IsValidLayer(layer)
         /\ IsForecast(days, day)
         /\ LET key == ForecastCacheKey(layer, days)
                got == CacheGet(cache, key, now)
                grid == GridPoints("forecast")
                base == [IdleReq EXCEPT !.layer = layer, !.days = days, !.day = day,
                                        !.kind = "forecast",
                                        !.fresh = StatedFresh(layer, "forecast", days, now),
                                        !.refetch = StatedExpired(layer, "forecast", days, now)]
            IN  /\ cache' = CacheAfterLookup(cache, key, now)
                /\ IF got # None
                   THEN req' = [req EXCEPT ![r] =
                             [base EXCEPT !.pc = "done", !.hit = TRUE,
                                          !.src = Some(writer[key]),
                                          !.resp = ForecastResponse(The(got), day)]]
                   ELSE req' = [req EXCEPT ![r] =
                             [base EXCEPT !.pc = "fetching", !.boundaryLoads = 1,
                                          !.inflight = Len(BatchAt(grid, 0)),
                                          !.upstream = Len(BatchAt(grid, 0))]]
    /\ arrivals' = arrivals + 1
    /\ UNCHANGED <<now, writer, stated, notRouteVars>>

\* Lines 70-78: a batch that is not the last settles; the inter-batch delay starts
SettleBatch(r) ==
    /\ req[r].pc = "fetching"
    /\ LET q == req[r]
           grid == GridPoints("forecast")
           batch == BatchAt(grid, q.i)
       IN  /\ q.i + BATCH_SIZE < Len(grid)
           /\ \E failed \in FailSets(batch) :
                req' = [req EXCEPT ![r] =
                          [q EXCEPT !.pc = "delay", !.inflight = 0,
                                    !.results = q.results \o BatchResults(batch, failed, q.days),
                                    !.due = now + DELAY_MS]]
    /\ UNCHANGED <<now, cache, arrivals, writer, stated, notRouteVars>>

\* Lines 70-85 and 90-165: the last batch settles; the pass is stored for two
\* hours and the response is built from it
SettleLastBatch(r) ==
    /\ req[r].pc = "fetching"
    /\ LET q == req[r]
           grid == GridPoints("forecast")
           batch == BatchAt(grid, q.i)
           key == ForecastCacheKey(q.layer, q.days)
       IN  /\ ~(q.i + BATCH_SIZE < Len(grid))
           /\ \E failed \in FailSets(batch) :
                LET all == q.results \o BatchResults(batch, failed, q.days)
                    info == PassInfo(q, OkPoints(all), Len(grid))
                IN  /\ cache' = CacheSet(cache, key, all, Some(ForecastTTL), now)
                    /\ writer' = SetWriter(key, info)
                    /\ stated' = [stated EXCEPT ![LogicalOf(q)] = Some(now)]
                    /\ req' = [req EXCEPT ![r] =
                            [q EXCEPT !.pc = "done", !.results = <<>>, !.i = 0,
                                      !.inflight = 0, !.stored = TRUE,
                                      !.overwrote = Overwritten(key),
                                      !.src = Some(info),
                                      !.resp = ForecastResponse(all, q.day)]]
    /\ UNCHANGED <<now, arrivals, notRouteVars>>

\* Lines 74-77 and 59-68: the delay has elapsed; the next batch starts
DelayElapsed(r) ==
    /\ req[r].pc = "delay"
    /\ now >= req[r].due
    /\ LET q == req[r]
           next == BatchAt(GridPoints("forecast"), q.i + BATCH_SIZE)
       IN  req' = [req EXCEPT ![r] =
                     [q EXCEPT !.pc = "fetching", !.i = q.i + BATCH_SIZE, !.due = 0,
                               !.inflight = Len(next),
                               !.upstream = q.upstream + Len(next)]]
    /\ UNCHANGED <<now, cache, arrivals, writer, stated, notRouteVars>>

\* Lines 168-188: a current-conditions request: answered from the cache, or the
\* boundary is loaded, the grid built and every point fetched at once
ArriveCurrent(r) ==
    /\ FreeSlot(r)
    /\ \E layer \in LayerParams, days \in DaysParams, day \in DayParams :
         /\ IsValidLayer(layer)
         /\ ~IsForecast(days, day)
         /\ LET key == CurrentCacheKey(layer)
                got == CacheGet(cache, key, now)
                grid == GridPoints("current")
                base == [IdleReq EXCEPT !.layer = layer, !.days = days, !.day = day,
                                        !.kind = "current",
                                        !.fresh = StatedFresh(layer, "current", days, now),
                                        !.refetch = StatedExpired(layer, "current", days, now)]
            IN  /\ cache' = CacheAfterLookup(cache, key, now)
                /\ IF got # None
                   THEN req' = [req EXCEPT ![r] =
                             [base EXCEPT !.pc = "done", !.hit = TRUE,
                                          !.src = Some(writer[key]),
                                          !.resp = The(got)]]
                   ELSE req' = [req EXCEPT ![r] =
                             [base EXCEPT !.pc = "fetchingAll", !.boundaryLoads = 1,
                                          !.inflight = Len(grid), !.upstream = Len(grid)]]
    /\ arrivals' = arrivals + 1
    /\ UNCHANGED <<now, writer, stated, notRouteVars>>

\* Lines 188-226 with fetchAllSoilData: every fetch has settled; the failed ones
\* are dropped, the response is built and stored with the default TTL
SettleAll(r) ==
    /\ req[r].pc = "fetchingAll"
    /\ LET q == req[r]
           grid == GridPoints("current")
           key == CurrentCacheKey(q.layer)
       IN  \E failed \in FailSets(grid) :
             LET soilData == ValidResults(grid, failed)
                 response == CurrentResponse(grid, soilData)
                 info == PassInfo(q, SeqRange(grid) \ failed, Len(grid))
             IN  /\ cache' = CacheSet(cache, key, response, None, now)
                 /\ writer' = SetWriter(key, info)
                 /\ stated' = [stated EXCEPT ![LogicalOf(q)] = Some(now)]
                 /\ req' = [req EXCEPT ![r] =
                         [q EXCEPT !.pc = "done", !.inflight = 0, !.stored = TRUE,
                                   !.overwrote = Overwritten(key),
                                   !.src = Some(info),
                                   !.resp = response]]
    /\ UNCHANGED <<now, arrivals, notRouteVars>>

PendingDelays == {req[r].due : r \in {s \in Slots : req[s].pc = "delay" /\ req[s].due > now}}

\* Time passes: up to the next inter-batch delay that is due, else by one hour
RouteTick ==
    /\ IF PendingDelays # {}
       THEN now' = MinOf(PendingDelays)
       ELSE /\ now < MaxHours * HourMs
            /\ now' = now + HourMs
    /\ UNCHANGED <<cache, routeVars, notRouteVars>>

RouteIdle ==
    /\ req = [r \in Slots |-> IdleReq]
    /\ arrivals = 0
    /\ writer = EmptyCache
    /\ stated = [l \in LogicalIds |-> None]

(***************************************************************************)
(* Map.tsx and CanvasHeatMap.tsx                                           *)
(*                                                                         *)
(* The Map component shows the Leaflet map when it is neither loading nor  *)
(* in error, and mounts CanvasHeatMap inside it when the sample set is not *)
(* empty.  CanvasHeatMap debounces its renders with a timer and keeps one  *)
(* image overlay on the map.  A timer or listener is a closure: it carries *)
(* the props (data, layer) of the commit that created it.                  *)
(***************************************************************************)
DEBOUNCE_MS == 100

MaxRenderTicks == 6     \* clock ticks of half a debounce window in one behaviour
MaxData == 2            \* distinct non-empty sample sets; 0 stands for []
MaxBounds == 1          \* distinct viewports besides the initial one
MaxInflight == 2        \* fetchData calls in flight at the same time

RenderTickMs == DEBOUNCE_MS \div 2
DataSets == 0 .. MaxData
ViewBounds == 0 .. MaxBounds
InitialBounds == MinOf(ViewBounds)
MapLayers == {"moisture", "temperature"}
MapEvents == {"zoomend", "moveend", "resize"}
NoTrigger == 0 - 1

\* `data.length === 0`
IsEmpty(d) == d = 0

\* Map lines 176-215: the map is rendered unless loading or error is set
MapShown(p) == ~p.loading /\ ~p.error

\* Map lines 279-282: `data.length > 0 && <CanvasHeatMap .../>`
ShowsHeatMap(p) == MapShown(p) /\ ~IsEmpty(p.data)

\* The props a commit hands to CanvasHeatMap, captured by its closures
Closure(p) == [data |-> p.data, layer |-> p.layer]

\* An id that nothing refers to
FreshId(used) == CHOOSE i \in 1 .. (Cardinality(used) + 1) : i \notin used

\* A clearTimeout that cancels nothing, to compare C5 against
ClearTimeoutIgnored(ts, id) == ts

\* clearTimeout(id)
ClearTimeout(ts, id) == {t \in ts : t.id # id}

\* A removeLayer that leaves the overlay on the map, to compare C7 against
RemoveLayerIgnored(ls, id) == ls

\* map.removeLayer(overlay): a no-op when the overlay is not on the map
RemoveLayer(ls, id) == {o \in ls : o.id # id}

\* renderHeatMap, lines 596-608, called at time t from a closure c
RenderHeatMap(c, h, t) ==
    IF IsEmpty(c.data) THEN h
    ELSE LET cleared == IF h.renderTimeoutRef # 0
                        THEN ClearTimeout(h.timers, h.renderTimeoutRef)
                        ELSE h.timers
             id == FreshId({x.id : x \in cleared} \cup {h.renderTimeoutRef})
         IN  [h EXCEPT !.timers = cleared \cup {[id |-> id, due |-> t + DEBOUNCE_MS, c |-> c]},
                       !.renderTimeoutRef = id]

\* performRender, lines 610-720, run from a closure c with the map at bounds b
PerformRender(c, h, b) ==
    IF IsEmpty(c.data) THEN h
    ELSE LET removed == IF h.overlayRef # 0 THEN RemoveLayer(h.layers, h.overlayRef)
                        ELSE h.layers
             id == FreshId({o.id : o \in removed} \cup {h.overlayRef})
         IN  [h EXCEPT !.layers = removed \cup {[id |-> id, bounds |-> b, c |-> c]},
                       !.overlayRef = id]

\* The first effect's body, lines 723-736
EffectMapEvents(c, h, t) ==
    [RenderHeatMap(c, h, t) EXCEPT !.listeners = @ \cup {c}]

\* The second effect's body, lines 755-757
EffectDataLayer(c, h, t) == RenderHeatMap(c, h, t)

\* A cleanup that leaves the pending timer alone, to compare C6 against
CleanupKeepingTimer(c, h) ==
    [h EXCEPT !.listeners = @ \ {c},
              !.layers = IF h.overlayRef # 0 THEN RemoveLayer(@, h.overlayRef) ELSE @]

\* A cleanup that leaves the overlay on the map, to compare C8 against
CleanupKeepingOverlay(c, h) ==
    [h EXCEPT !.listeners = @ \ {c},
              !.timers = IF h.renderTimeoutRef # 0 THEN ClearTimeout(@, h.renderTimeoutRef)
                         ELSE @]

\* A cleanup that leaves the handlers registered, to compare C30 against
CleanupKeepingListeners(c, h) ==
    [h EXCEPT !.layers = IF h.overlayRef # 0 THEN RemoveLayer(@, h.overlayRef) ELSE @,
              !.timers = IF h.renderTimeoutRef # 0 THEN ClearTimeout(@, h.renderTimeoutRef)
                         ELSE @]

\* The first effect's cleanup, lines 738-751; the refs keep their values
Cleanup(c, h) ==
    [h EXCEPT !.listeners = @ \ {c},
              !.layers = IF h.overlayRef # 0 THEN RemoveLayer(@, h.overlayRef) ELSE @,
              !.timers = IF h.renderTimeoutRef # 0 THEN ClearTimeout(@, h.renderTimeoutRef)
                         ELSE @]

\* The handlers registered on the map run, each from its own closure
RECURSIVE FireListeners(_, _, _)
FireListeners(cs, h, t) ==
    IF cs = {} THEN h
    ELSE LET c == CHOOSE x \in cs : TRUE
         IN  FireListeners(cs \ {c}, RenderHeatMap(c, h, t), t)

Unmounts(h, p1) == h.mounted /\ ~ShowsHeatMap(p1)
Mounts(h, p1) == ~h.mounted /\ ShowsHeatMap(p1)
Updates(h, p0, p1) == h.mounted /\ ShowsHeatMap(p1) /\ Closure(p0) # Closure(p1)

\* React commits the Map state p1 after p0: CanvasHeatMap is unmounted (cleanup),
\* mounted (fresh refs, both effects) or, when data or layer changed, has its
\* first effect cleaned up and both effects run again
CommitHeat(h, p0, p1, t) ==
    IF Unmounts(h, p1) THEN [Cleanup(Closure(p0), h) EXCEPT !.mounted = FALSE]
    ELSE IF Mounts(h, p1) THEN
        EffectDataLayer(Closure(p1),
            EffectMapEvents(Closure(p1),
                [h EXCEPT !.mounted = TRUE, !.renderTimeoutRef = 0, !.overlayRef = 0], t), t)
    ELSE IF Updates(h, p0, p1) THEN
        EffectDataLayer(Closure(p1),
            EffectMapEvents(Closure(p1), Cleanup(Closure(p0), h), t), t)
    ELSE h

\* ghost: a call of renderHeatMap at time t
ObsTrigger(kind, o, t) ==
    [o EXCEPT !.trigger = kind, !.lastTrigger = t, !.rendersSince = 0,
              !.burst = IF o.rendersSince >= 1 \/ o.lastTrigger < 0 THEN 1
                        ELSE IF o.burst < 3 THEN o.burst + 1 ELSE 3]

\* ghost: the component is gone, nothing is awaited
ObsQuiet(o) ==
    [o EXCEPT !.trigger = "none", !.lastTrigger = NoTrigger, !.rendersSince = 0, !.burst = 0,
              !.lastRender = None]

\* ghost: what a commit did
CommitObs(o, h, p0, p1, t) ==
    IF Unmounts(h, p1)
    THEN [ObsQuiet(o) EXCEPT !.cancelled = @ \/ h.timers # {},
                             !.swept = @ \/ (h.timers # {} /\ h.layers # {})]
    ELSE IF Mounts(h, p1) THEN ObsTrigger("mount", o, t)
    ELSE IF Updates(h, p0, p1) THEN
        [ObsTrigger("props", o, t) EXCEPT !.cancelled = @ \/ h.timers # {}]
    ELSE o

\* A new MapContainer starts at its center and zoom props
CommitView(v, p0, p1) == IF ~MapShown(p0) /\ MapShown(p1) THEN InitialBounds ELSE v

\* fetchData starts (mount effect, hourly interval, Retry): lines 44-55
FetchData ==
    /\ page.inflight < MaxInflight
    /\ LET p1 == [page EXCEPT !.loading = TRUE, !.error = FALSE, !.inflight = @ + 1]
       IN  /\ page' = p1
           /\ heat' = CommitHeat(heat, page, p1, now)
           /\ obs' = CommitObs(obs, heat, page, p1, now)
    /\ UNCHANGED <<now, view, notRenderVars>>

\* fetchData: the response arrived, lines 55-94 and 98-100
FetchResolved(d) ==
    /\ page.inflight > 0
    /\ LET p1 == [page EXCEPT !.data = d, !.loading = FALSE, !.inflight = @ - 1]
       IN  /\ page' = p1
           /\ heat' = CommitHeat(heat, page, p1, now)
           /\ obs' = CommitObs(obs, heat, page, p1, now)
           /\ view' = CommitView(view, page, p1)
    /\ UNCHANGED <<now, notRenderVars>>

\* fetchData: the request failed, lines 95-100
FetchRejected ==
    /\ page.inflight > 0
    /\ LET p1 == [page EXCEPT !.error = TRUE, !.loading = FALSE, !.inflight = @ - 1]
       IN  /\ page' = p1
           /\ heat' = CommitHeat(heat, page, p1, now)
           /\ obs' = CommitObs(obs, heat, page, p1, now)
           /\ view' = CommitView(view, page, p1)
    /\ UNCHANGED <<now, notRenderVars>>

\* The page passes another layer: the commit re-runs CanvasHeatMap's effects,
\* then Map's effect (lines 127-135) calls fetchData
LayerChange(l) ==
    /\ l # page.layer
    /\ page.inflight < MaxInflight
    /\ LET p1 == [page EXCEPT !.layer = l]
           h1 == CommitHeat(heat, page, p1, now)
           o1 == CommitObs(obs, heat, page, p1, now)
           p2 == [p1 EXCEPT !.loading = TRUE, !.error = FALSE, !.inflight = @ + 1]
       IN  /\ page' = p2
           /\ heat' = CommitHeat(h1, p1, p2, now)
           /\ obs' = CommitObs(o1, h1, p1, p2, now)
    /\ UNCHANGED <<now, view, notRenderVars>>

\* The map fires zoomend, moveend or resize with the viewport at b
MapEvent(e, b) ==
    /\ MapShown(page)
    /\ view' = b
    /\ heat' = FireListeners(heat.listeners, heat, now)
    /\ obs' = [(IF heat.listeners # {} THEN ObsTrigger(e, obs, now) ELSE obs)
                  EXCEPT !.emptyEvents = @ \/ IsEmpty(page.data)]
    /\ UNCHANGED <<now, page, notRenderVars>>

\* A timer that is due runs its callback, lines 605-607
TimerFire ==
  \E t \in heat.timers :
    /\ t.due <= now
    /\ heat' = PerformRender(t.c, [heat EXCEPT !.timers = @ \ {t}], view)
    /\ obs' = IF IsEmpty(t.c.data) THEN obs
              ELSE [obs EXCEPT
                      !.rendersSince = IF @ < 2 THEN @ + 1 ELSE 2,
                      !.lastRender = Some([delay |-> now - obs.lastTrigger, c |-> t.c,
                                           bounds |-> view,
                                           replaced |-> \E o \in heat.layers :
                                                            o.id = heat.overlayRef]),
                      !.stale = @ \/ ~heat.mounted \/ t.c # Closure(page),
                      !.drawn = TRUE]
    /\ UNCHANGED <<now, page, view, notRenderVars>>

\* Time passes; a timer that is due runs before the clock moves on
RenderTick ==
    /\ now < MaxRenderTicks * RenderTickMs
    /\ \A t \in heat.timers : t.due > now
    /\ now' = now + RenderTickMs
    /\ UNCHANGED <<renderVars, notRenderVars>>

\* Map lines 37-42 and the mount effect: loading, no data, the first fetch on its way
RenderIdle ==
    /\ page = [data |-> 0, loading |-> TRUE, error |-> FALSE, layer |-> "moisture",
               inflight |-> 1]
    /\ heat = [mounted |-> FALSE, renderTimeoutRef |-> 0, overlayRef |-> 0,
               timers |-> {}, listeners |-> {}, layers |-> {}]
    /\ view = InitialBounds
    /\ obs = [trigger |-> "none", lastTrigger |-> NoTrigger, rendersSince |-> 0,
              burst |-> 0, lastRender |-> None, stale |-> FALSE,
              cancelled |-> FALSE, drawn |-> FALSE, emptyEvents |-> FALSE,
              swept |-> FALSE]

(***************************************************************************)
(* The per-cell pipeline of performRender (CanvasHeatMap lines 640-690),   *)
(* idwInterpolation.ts and geoUtils.ts.                                    *)
(*                                                                         *)
(* Coordinates are integers in tenths of a degree.  A number is a record:  *)
(* NaN, or the fraction n / d with d > 0.                                  *)
(***************************************************************************)
NaN == [nan |-> TRUE, n |-> 0, d |-> 1]
Num(v) == [nan |-> FALSE, n |-> v, d |-> 1]
Frac(n, d) == [nan |-> FALSE, n |-> n, d |-> d]

\* Math.round(p / q) for q > 0: the nearest integer, halves upwards
RoundDiv(p, q) == (2 * p + q) \div (2 * q)

MaxDistance == 15       \* idwInterpolate(lat, lon, data, 2, 1.5): 1.5 degrees
BoundsSouth == 518      \* isPointInBounds: lat >= 51.8
BoundsNorth == 552      \* lat <= 55.2
BoundsWest == 660       \* lon >= 66.0
BoundsEast == 720       \* lon <= 72.0

GridCols == 8           \* blocks across the canvas
GridRows == 5           \* blocks down the canvas
CellStep == 10          \* tenths of a degree from one block to the next
ViewWest == 650         \* longitude of the canvas's left edge
ViewNorth == 560        \* latitude of the canvas's top edge
MaxSamples == 2         \* samples in a data set

\* isPointInBounds, idwInterpolation.ts lines 156-159
IsPointInBounds(lat, lon) ==
    lat >= BoundsSouth /\ lat <= BoundsNorth /\ lon >= BoundsWest /\ lon <= BoundsEast

\* The squared distance of lines 17-20, in squared tenths of a degree
DistSq(lat, lon, p) == (lat - p.lat) * (lat - p.lat) + (lon - p.lon) * (lon - p.lon)

\* `distance > maxDistance`
TooFar(d2) == d2 > MaxDistance * MaxDistance

\* `distance < 0.001`, the distance being in degrees
OnPoint(d2) == d2 * 10000 < 1

\* The loop of idwInterpolate, lines 16-42.  acc holds valueSum = vn / den and
\* weightSum = wn / den, whether valueSum is NaN, and hasNearbyPoints.
RECURSIVE IdwLoop(_, _, _, _, _)
IdwLoop(lat, lon, pts, i, acc) ==
    IF i > Len(pts)
    THEN IF ~acc.has \/ acc.wn = 0 THEN None
         ELSE IF acc.nan THEN Some(NaN)
         ELSE Some(Frac(acc.vn, acc.wn))
    ELSE LET p == pts[i]
             d2 == DistSq(lat, lon, p)
         IN  IF TooFar(d2) THEN IdwLoop(lat, lon, pts, i + 1, acc)
             ELSE IF OnPoint(d2) THEN Some(p.value)
             ELSE IdwLoop(lat, lon, pts, i + 1,
                          [vn |-> acc.vn * d2 + p.value.n * acc.den,
                           wn |-> acc.wn * d2 + acc.den,
                           den |-> acc.den * d2,
                           nan |-> acc.nan \/ p.value.nan,
                           has |-> TRUE])

\* idwInterpolate(targetLat, targetLon, dataPoints, 2, 1.5): null, or a number
IdwInterpolate(lat, lon, pts) ==
    IdwLoop(lat, lon, pts, 1, [vn |-> 0, wn |-> 0, den |-> 1, nan |-> FALSE, has |-> FALSE])

Stop(v, r, g, b) == [value |-> v, r |-> r, g |-> g, b |-> b]

\* getMoistureColor's colorStops, lines 50-64
MoistureStops ==
    << Stop(0, 92, 51, 23), Stop(5, 139, 69, 19), Stop(10, 210, 105, 30),
       Stop(15, 255, 140, 0), Stop(20, 255, 215, 0), Stop(25, 154, 205, 50),
       Stop(30, 50, 205, 50), Stop(35, 0, 204, 102), Stop(40, 0, 206, 209),
       Stop(45, 65, 105, 225), Stop(50, 0, 0, 255), Stop(60, 0, 0, 139),
       Stop(100, 0, 0, 100) >>

\* getTemperatureColor's colorStops, lines 97-104
TemperatureStops ==
    << Stop(0 - 10, 0, 0, 255), Stop(0, 135, 206, 235), Stop(10, 144, 238, 144),
       Stop(20, 255, 255, 0), Stop(30, 255, 140, 0), Stop(40, 255, 69, 0) >>

\* Math.max(lo, Math.min(hi, value)): NaN stays NaN
Clamp(lo, hi, x) ==
    IF x.nan THEN NaN
    ELSE IF x.n > hi * x.d THEN Num(hi)
    ELSE IF x.n < lo * x.d THEN Num(lo)
    ELSE x

\* Lines 69-90: the surrounding stops and the interpolated, rounded channels.
\* Every comparison with NaN is false, so NaN keeps the first and the last
\* stop and every channel is Math.round(NaN) = NaN.
GradientColor(stops, value) ==
    LET c == Clamp(stops[1].value, stops[Len(stops)].value, value)
    IN  IF c.nan THEN [r |-> NaN, g |-> NaN, b |-> NaN]
        ELSE LET i == MinOf({k \in 1 .. Len(stops) - 1 :
                                /\ stops[k].value * c.d <= c.n
                                /\ c.n <= stops[k + 1].value * c.d})
                 lower == stops[i]
                 upper == stops[i + 1]
                 q == c.d * (upper.value - lower.value)
                 part == c.n - lower.value * c.d
                 Channel(a, b) == Num(RoundDiv(a * q + part * (b - a), q))
             IN  [r |-> Channel(lower.r, upper.r),
                  g |-> Channel(lower.g, upper.g),
                  b |-> Channel(lower.b, upper.b)]

\* getMoistureColor and getTemperatureColor
GetMoistureColor(value) == GradientColor(MoistureStops, value)
GetTemperatureColor(value) == GradientColor(TemperatureStops, value)

\* Math.round(0.3 * 255) and Math.round(0.8 * 255)
AlphaFloor == RoundDiv(3 * 255, 10)
AlphaCeil == RoundDiv(8 * 255, 10)

\* Lines 674-677 and 686: Math.round(opacity * 255) with
\* opacity = Math.max(0.3, Math.min(0.8, 1 - nearestDistance * 2)),
\* from the squared distance to the nearest sample
AlphaOf(d2) ==
    IF 4 * d2 >= 49 THEN AlphaFloor
    ELSE IF d2 <= 1 THEN AlphaCeil
    ELSE CHOOSE a \in AlphaFloor .. AlphaCeil :
            /\ 10404 * d2 <= (511 - 2 * a) * (511 - 2 * a)
            /\ a < AlphaCeil => 10404 * d2 > (509 - 2 * a) * (509 - 2 * a)

NearestSq(lat, lon, pts) == MinOf({DistSq(lat, lon, pts[i]) : i \in DOMAIN pts})

\* A store into the Uint8ClampedArray: NaN becomes 0, a number is clamped
ToUint8Clamped(x) ==
    IF x.nan THEN 0
    ELSE IF x.n < 0 THEN 0
    ELSE IF x.n > 255 THEN 255
    ELSE x.n

\* A pixel of createImageData: transparent black
Unpainted == [r |-> 0, g |-> 0, b |-> 0, a |-> 0]

\* A ray casting loop without the edge from the last vertex back to the first,
\* to compare C19 against
IsPointInPolygonOpenRing(point, polygon) ==
    IF Len(polygon) = 0 THEN FALSE
    ELSE IF Len(polygon[1]) < 3 THEN FALSE
    ELSE LET lon == point[1]
             lat == point[2]
             coords == polygon[1]
             Intersect(i) ==
                 LET xi == coords[i][1]
                     yi == coords[i][2]
                     xj == coords[i - 1][1]
                     yj == coords[i - 1][2]
                 IN  /\ (yi > lat) # (yj > lat)
                     /\ IF yj - yi > 0
                        THEN (lon - xi) * (yj - yi) < (xj - xi) * (lat - yi)
                        ELSE (lon - xi) * (yj - yi) > (xj - xi) * (lat - yi)
         IN  Cardinality({i \in 2 .. Len(coords) : Intersect(i)}) % 2 = 1

\* isPointInPolygon, geoUtils.ts lines 9-34; point is <<lon, lat>>.  The
\* division of line 28 is cleared by multiplying with yj - yi.
IsPointInPolygon(point, polygon) ==
    IF Len(polygon) = 0 THEN FALSE
    ELSE IF Len(polygon[1]) < 3 THEN FALSE
    ELSE LET lon == point[1]
             lat == point[2]
             coords == polygon[1]
             n == Len(coords)
             Intersect(i) ==
                 LET j == IF i = 1 THEN n ELSE i - 1
                     xi == coords[i][1]
                     yi == coords[i][2]
                     xj == coords[j][1]
                     yj == coords[j][2]
                 IN  /\ (yi > lat) # (yj > lat)
                     /\ IF yj - yi > 0
                        THEN (lon - xi) * (yj - yi) < (xj - xi) * (lat - yi)
                        ELSE (lon - xi) * (yj - yi) > (xj - xi) * (lat - yi)
         IN  Cardinality({i \in 1 .. n : Intersect(i)}) % 2 = 1

\* getSimpleBoundary().geometry.coordinates, pavlodarBoundary.ts lines 265-284
SimpleBoundary ==
    << << <<680, 555>>, <<730, 555>>, <<730, 530>>, <<680, 530>>, <<680, 555>> >> >>

\* northKazakhstanBoundary.geometry.coordinates, pavlodarBoundary.ts lines 3-33
NorthKazakhstanBoundary ==
    << << <<665, 550>>, <<678, 552>>, <<692, 551>>, <<705, 549>>, <<718, 545>>,
          <<720, 540>>, <<718, 532>>, <<713, 525>>, <<705, 520>>, <<692, 518>>,
          <<678, 519>>, <<668, 522>>, <<662, 528>>, <<660, 535>>, <<661, 542>>,
          <<663, 547>>, <<665, 550>> >> >>

\* Map's boundary state: null until /api/boundary answers, then its polygon
BoundaryProps == {None, Some(SimpleBoundary), Some(NorthKazakhstanBoundary)}

\* map.containerPointToLatLng for the k-th block, x in the outer loop
CellCount == GridCols * GridRows
CellLon(k) == ViewWest + ((k - 1) \div GridRows) * CellStep
CellLat(k) == ViewNorth - ((k - 1) % GridRows) * CellStep

\* The sample sets the model draws: one or two samples at distinct places,
\* each value a percentage, a temperature or NaN
SamplePlaces == {[lat |-> 540, lon |-> 670], [lat |-> 540, lon |-> 710]}
SampleValues == {NaN, Num(20), Num(40)}
Samples == {[lat |-> p.lat, lon |-> p.lon, value |-> v] : p \in SamplePlaces, v \in SampleValues}
SampleSets ==
    {s \in UNION {[1 .. n -> Samples] : n \in 1 .. MaxSamples} :
        \A i, j \in DOMAIN s : i # j => <<s[i].lat, s[i].lon>> # <<s[j].lat, s[j].lon>>}

\* Lines 643-688 for one block: what its pixels hold afterwards
CellPixel(lat, lon, data, layer) ==
    IF ~IsPointInBounds(lat, lon) THEN Unpainted
    ELSE LET interpolatedValue == IdwInterpolate(lat, lon, data)
         IN  IF interpolatedValue = None THEN Unpainted
             ELSE LET rgb == IF layer = "moisture"
                             THEN GetMoistureColor(The(interpolatedValue))
                             ELSE GetTemperatureColor(The(interpolatedValue))
                  IN  [r |-> ToUint8Clamped(rgb.r),
                       g |-> ToUint8Clamped(rgb.g),
                       b |-> ToUint8Clamped(rgb.b),
                       a |-> AlphaOf(NearestSq(lat, lon, data))]

RasterIdleState ==
    [phase |-> "idle", data |-> <<>>, layer |-> "moisture", boundary |-> None,
     cursor |-> 0, pixels |-> <<>>]

\* performRender starts, lines 610-638: the props it runs with, a cleared image
StartRender(data, layer, boundary) ==
    /\ raster.phase \in {"idle", "done"}
    /\ raster' = [phase |-> "painting", data |-> data, layer |-> layer,
                  boundary |-> boundary, cursor |-> 1,
                  pixels |-> [k \in 1 .. CellCount |-> Unpainted]]
    /\ UNCHANGED <<now, notRasterVars>>

\* One pass of the loop body, lines 643-688
PaintCell ==
    /\ raster.phase = "painting"
    /\ raster.cursor <= CellCount
    /\ LET k == raster.cursor
       IN  raster' = [raster EXCEPT
                        !.pixels[k] = CellPixel(CellLat(k), CellLon(k), raster.data, raster.layer),
                        !.cursor = k + 1]
    /\ UNCHANGED <<now, notRasterVars>>

\* The loop is over, lines 692-719: the image becomes the overlay
FinishRender ==
    /\ raster.phase = "painting"
    /\ raster.cursor > CellCount
    /\ raster' = [raster EXCEPT !.phase = "done"]
    /\ UNCHANGED <<now, notRasterVars>>

RasterIdle == raster = RasterIdleState


(***************************************************************************)
(* fetchSoilForecast (lib/openMeteoClient.ts): the retry loop              *)
(***************************************************************************)
\* `maxRetries: number = 2`
DefaultMaxRetries == 2
\* the maxRetries arguments tried; with a negative one the loop body never runs
MaxRetriesArgs == (0 - 1) .. DefaultMaxRetries

\* `(attempt + 1) * 1000`: the wait after a 429
BackoffMs(attempt) == (attempt + 1) * 1000
\* `setTimeout(resolve, 1000)`: the wait after a caught error
ErrorWaitMs == 1000

\* What one fetch(url) can do. has429 says whether the message of the error it
\* leads to contains the text "429": `HTTP ${status}: ${statusText}` quotes the
\* status text, and the SyntaxError of response.json() quotes the body or the
\* position of the offending character.
UpstreamOutcomes ==
    {[kind |-> k, has429 |-> FALSE] : k \in {"ok", "rateLimit", "timeout"}}
    \cup {[kind |-> k, has429 |-> b] : k \in {"httpError", "malformed"}, b \in BOOLEAN}

\* Lines 325-434: the try block of one attempt
TryBody(o, attempt, maxRetries) ==
    IF o.kind = "rateLimit"
    THEN IF attempt < maxRetries
         THEN [ctl |-> "continue", wait |-> BackoffMs(attempt), value |-> "none"]
         ELSE [ctl |-> "return", wait |-> 0, value |-> "null"]
    ELSE IF o.kind = "ok"
    THEN [ctl |-> "return", wait |-> 0, value |-> "forecast"]
    ELSE [ctl |-> "throw", wait |-> 0, value |-> "none"]

\* A catch block that waits after every error, to compare the code's against
CatchAlwaysWaiting(err, attempt, maxRetries) ==
    IF attempt = maxRetries
    THEN [ctl |-> "return", wait |-> 0, value |-> "null"]
    ELSE [ctl |-> "continue", wait |-> ErrorWaitMs, value |-> "none"]

\* Lines 436-449: the catch block
Catch(err, attempt, maxRetries) ==
    IF attempt = maxRetries
    THEN [ctl |-> "return", wait |-> 0, value |-> "null"]
    ELSE IF ~err.has429
    THEN [ctl |-> "continue", wait |-> ErrorWaitMs, value |-> "none"]
    ELSE [ctl |-> "continue", wait |-> 0, value |-> "none"]

\* One iteration of the loop body, lines 324-449
Attempt(o, attempt, maxRetries) ==
    LET t == TryBody(o, attempt, maxRetries)
    IN  IF t.ctl = "throw" THEN Catch(o, attempt, maxRetries) ELSE t

FetchIdleState ==
    [pc |-> "idle", maxRetries |-> 0, attempt |-> 0, requests |-> 0, wait |-> 0,
     outcomes |-> <<>>, spacing |-> <<>>, result |-> "none"]

\* fetchSoilForecast(point, layer, forecastDays, maxRetries) is called
CallFetchSoilForecast(m) ==
    /\ fsf.pc = "idle"
    /\ fsf' = [fsf EXCEPT !.pc = "loop", !.maxRetries = m]
    /\ UNCHANGED <<now, notFetchVars>>

\* One pass through the loop body: the request is issued, the upstream answers
\* with o, and the function returns, starts a wait, or goes on to the next
\* attempt at once. spacing records the wait that preceded each retry.
UpstreamAnswers(o) ==
    /\ fsf.pc = "loop"
    /\ fsf.attempt <= fsf.maxRetries
    /\ LET a == Attempt(o, fsf.attempt, fsf.maxRetries)
           sent == [fsf EXCEPT !.requests = @ + 1, !.outcomes = Append(@, o)]
       IN  fsf' = IF a.ctl = "return"
                  THEN [sent EXCEPT !.pc = "returned", !.result = a.value]
                  ELSE IF a.wait > 0
                  THEN [sent EXCEPT !.pc = "sleeping", !.wait = a.wait]
                  ELSE [sent EXCEPT !.attempt = @ + 1, !.spacing = Append(@, 0)]
    /\ UNCHANGED <<now, notFetchVars>>

\* The setTimeout of a wait fires: `continue`, or the end of the catch block
WaitElapsed ==
    /\ fsf.pc = "sleeping"
    /\ fsf' = [fsf EXCEPT !.pc = "loop", !.attempt = @ + 1, !.wait = 0,
                          !.spacing = Append(@, fsf.wait)]
    /\ UNCHANGED <<now, notFetchVars>>

\* Line 452: the loop condition fails, `return null`
LoopExhausted ==
    /\ fsf.pc = "loop"
    /\ fsf.attempt > fsf.maxRetries
    /\ fsf' = [fsf EXCEPT !.pc = "returned", !.result = "null"]
    /\ UNCHANGED <<now, notFetchVars>>

FetchIdle == fsf = FetchIdleState


(***************************************************************************)
(* Grid generation (lib/gridGenerator.ts, lib/geoUtils.ts and the static   *)
(* grid of lib/pavlodarBoundary.ts).  Here a coordinate is an integer in   *)
(* units of 0.0001 degree, so that rounding to two and to three decimals   *)
(* both do something.  The steps tried keep every lattice point away from  *)
(* a rounding tie.                                                         *)
(***************************************************************************)
MaxOf(S) == CHOOSE x \in S : \A y \in S : x >= y

\* A polygon of the raster model (tenths of a degree) in grid units
ToGridUnits(polygon) ==
    [r \in DOMAIN polygon |->
        [i \in DOMAIN polygon[r] |-> <<polygon[r][i][1] * 1000, polygon[r][i][2] * 1000>>]]

\* generatePavlodarGrid and generateFallbackGrid: the hard-coded bounding box
latMin == 518000
latMax == 552000
lonMin == 660000
lonMax == 720000

\* `Math.round(lat * 100) / 100`
RoundTo2(v) == RoundDiv(v, 100) * 100
\* `Math.round(lat * 1000) / 1000`
RoundTo3(v) == RoundDiv(v, 10) * 10

\* The boundary objects: a GeoJSON Feature (its geometry.coordinates, or no
\* geometry) and a FeatureCollection of such features
Feature(geometry) == [type |-> "Feature", geometry |-> geometry]
FeatureCollection(features) == [type |-> "FeatureCollection", features |-> features]

\* isPointInAnyPolygon(point, boundaries), for a boundary that is not null
IsPointInAnyPolygon(point, boundaries) ==
    IF boundaries.type = "FeatureCollection"
    THEN \E i \in DOMAIN boundaries.features :
            /\ boundaries.features[i].geometry # None
            /\ IsPointInPolygon(point, The(boundaries.features[i].geometry))
    ELSE IF boundaries.geometry # None
    THEN IsPointInPolygon(point, The(boundaries.geometry))
    ELSE FALSE

\* A getBoundingBox without the guard of lines 83-85, to compare C20 against:
\* the scan of an empty ring leaves Infinity and -Infinity, written here as
\* the largest and smallest integers
GetBoundingBoxUnguarded(polygon) ==
    LET coords == IF Len(polygon) = 0 THEN <<>> ELSE polygon[1]
        lons == {coords[i][1] : i \in DOMAIN coords}
        lats == {coords[i][2] : i \in DOMAIN coords}
    IN  IF Len(coords) = 0
        THEN [minLat |-> 2147483647, maxLat |-> 0 - 2147483647,
              minLon |-> 2147483647, maxLon |-> 0 - 2147483647]
        ELSE [minLat |-> MinOf(lats), maxLat |-> MaxOf(lats),
              minLon |-> MinOf(lons), maxLon |-> MaxOf(lons)]

\* getBoundingBox(polygon), geoUtils.ts lines 77-100, for a polygon that is an array
GetBoundingBox(polygon) ==
    IF Len(polygon) = 0 THEN [minLat |-> 518000, maxLat |-> 552000, minLon |-> 660000, maxLon |-> 720000]
    ELSE IF Len(polygon[1]) = 0
    THEN [minLat |-> 518000, maxLat |-> 552000, minLon |-> 660000, maxLon |-> 720000]
    ELSE LET coords == polygon[1]
             lons == {coords[i][1] : i \in DOMAIN coords}
             lats == {coords[i][2] : i \in DOMAIN coords}
         IN  [minLat |-> MinOf(lats), maxLat |-> MaxOf(lats),
              minLon |-> MinOf(lons), maxLon |-> MaxOf(lons)]

\* getNorthKazakhstanBounds(): the box of the static polygon
GetNorthKazakhstanBounds ==
    LET b == GetBoundingBox(ToGridUnits(NorthKazakhstanBoundary))
    IN  [latMin |-> b.minLat, latMax |-> b.maxLat, lonMin |-> b.minLon, lonMax |-> b.maxLon]

\* `for (let lon = lonMin; lon <= lonMax; lon += step)` at one latitude: the
\* lattice points of the row, as <<lon, lat>>
RowLattice(lat, from, to, step) ==
    [k \in 1 .. ((to - from) \div step + 1) |-> <<from + (k - 1) * step, lat>>]

\* A filter loop that keeps every lattice point, to compare C15 against
RowAcceptedUnfiltered(lat, step, boundary) == RowLattice(lat, lonMin, lonMax, step)

\* A filter loop that runs from east to west, to compare C16 against
RowAcceptedEastToWest(lat, step, boundary) ==
    LET row == SelectSeq(RowLattice(lat, lonMin, lonMax, step),
                         LAMBDA p : IsPointInAnyPolygon(p, boundary))
    IN  [k \in DOMAIN row |-> row[Len(row) + 1 - k]]

\* generatePavlodarGrid lines 39-50: the lattice points of one row the filter accepts
RowAccepted(lat, step, boundary) ==
    SelectSeq(RowLattice(lat, lonMin, lonMax, step),
              LAMBDA p : IsPointInAnyPolygon(p, boundary))

\* lines 45-48 and 76-79: the point pushed for an accepted lattice point
GridPointRounded2(p) == [lat |-> RoundTo2(p[2]), lon |-> RoundTo2(p[1])]
\* pavlodarBoundary.ts lines 98-101
GridPointRounded3(p) == [lat |-> RoundTo3(p[2]), lon |-> RoundTo3(p[1])]

\* generateNorthKazakhstanGridFiltered lines 94-103: one row of the static grid
StaticRowAccepted(lat, step) ==
    SelectSeq(RowLattice(lat, GetNorthKazakhstanBounds.lonMin,
                         GetNorthKazakhstanBounds.lonMax, step),
              LAMBDA p : IsPointInPolygon(p, ToGridUnits(NorthKazakhstanBoundary)))

\* The steps tried: 0.5, 0.3 and 0.2 degrees, and 0.2537 degrees, whose lattice
\* points have four decimals
GridSteps == {5000, 3000, 2000, 2537}

\* [[0,0],[1,0],[1,1],[0,1],[0,0]]
UnitSquare ==
    << << <<0, 0>>, <<10000, 0>>, <<10000, 10000>>, <<0, 10000>>, <<0, 0>> >> >>

\* The boundary arguments tried: none, the fallback rectangle, the static
\* polygon, the unit square, a feature without geometry, a collection
GridBoundaries ==
    {None,
     Some(Feature(Some(ToGridUnits(SimpleBoundary)))),
     Some(Feature(Some(ToGridUnits(NorthKazakhstanBoundary)))),
     Some(Feature(Some(UnitSquare))),
     Some(Feature(None)),
     Some(FeatureCollection(<<Feature(None), Feature(Some(ToGridUnits(SimpleBoundary))),
                              Feature(Some(ToGridUnits(NorthKazakhstanBoundary)))>>))}

GridIdleState ==
    [pc |-> "idle", step |-> 0, boundary |-> None, lat |-> 0, grid |-> <<>>,
     accepted |-> <<>>, first |-> None]

MapSeq(s, Op(_)) == [i \in DOMAIN s |-> Op(s[i])]

\* generatePavlodarGrid(step, boundary), lines 18-37: without a boundary the
\* call goes to generateFallbackGrid(step)
CallGeneratePavlodarGrid(step, boundary) ==
    /\ gg.pc = "idle"
    /\ gg' = [gg EXCEPT !.pc = IF boundary = None THEN "fallback" ELSE "filter",
                        !.step = step, !.boundary = boundary, !.lat = latMin]
    /\ UNCHANGED <<now, notGridVars>>

\* Lines 38-51: one pass of the outer loop
ScanRow ==
    /\ gg.pc = "filter"
    /\ gg.lat <= latMax
    /\ LET row == RowAccepted(gg.lat, gg.step, The(gg.boundary))
       IN  gg' = [gg EXCEPT !.grid = @ \o MapSeq(row, GridPointRounded2),
                            !.accepted = @ \o row,
                            !.lat = @ + gg.step]
    /\ UNCHANGED <<now, notGridVars>>

\* generateFallbackGrid lines 74-81: one pass of the outer loop, no filter
ScanFallbackRow ==
    /\ gg.pc = "fallback"
    /\ gg.lat <= latMax
    /\ LET row == RowLattice(gg.lat, lonMin, lonMax, gg.step)
       IN  gg' = [gg EXCEPT !.grid = @ \o MapSeq(row, GridPointRounded2),
                            !.accepted = @ \o row,
                            !.lat = @ + gg.step]
    /\ UNCHANGED <<now, notGridVars>>

\* generateNorthKazakhstanGridFiltered(step), pavlodarBoundary.ts lines 89-92
CallGenerateGridFiltered(step) ==
    /\ gg.pc = "idle"
    /\ gg' = [gg EXCEPT !.pc = "static", !.step = step,
                        !.lat = GetNorthKazakhstanBounds.latMin]
    /\ UNCHANGED <<now, notGridVars>>

\* pavlodarBoundary.ts lines 94-103: one pass of the outer loop
ScanStaticRow ==
    /\ gg.pc = "static"
    /\ gg.lat <= GetNorthKazakhstanBounds.latMax
    /\ LET row == StaticRowAccepted(gg.lat, gg.step)
       IN  gg' = [gg EXCEPT !.grid = @ \o MapSeq(row, GridPointRounded3),
                            !.accepted = @ \o row,
                            !.lat = @ + gg.step]
    /\ UNCHANGED <<now, notGridVars>>

\* `return grid`: the outer loop condition fails
ReturnGrid ==
    /\ \/ gg.pc \in {"filter", "fallback"} /\ gg.lat > latMax
       \/ gg.pc = "static" /\ gg.lat > GetNorthKazakhstanBounds.latMax
    /\ gg' = [gg EXCEPT !.pc = IF gg.pc = "static" THEN "returnedStatic" ELSE "returned"]
    /\ UNCHANGED <<now, notGridVars>>

\* generatePavlodarGrid is called a second time with the same arguments; the
\* first result is kept for comparison
CallAgain ==
    /\ gg.pc = "returned"
    /\ gg.first = None
    /\ gg' = [gg EXCEPT !.pc = IF gg.boundary = None THEN "fallback" ELSE "filter",
                        !.lat = latMin, !.grid = <<>>, !.accepted = <<>>,
                        !.first = Some(gg.grid)]
    /\ UNCHANGED <<now, notGridVars>>

GridIdle == gg = GridIdleState


(***************************************************************************)
(* Boundary loading (lib/fetchBoundary.ts) and its two callers             *)
(***************************************************************************)
RegionName == "North Kazakhstan Region"

\* The features a regions file may hold: another region, a feature without
\* properties, and the region itself with a Polygon, with a MultiPolygon,
\* without geometry, and with empty coordinates
FileFeatures ==
    {[props |-> TRUE, shapeName |-> "Akmola Region",
      geometry |-> Some(ToGridUnits(SimpleBoundary))],
     [props |-> FALSE, shapeName |-> "", geometry |-> None],
     [props |-> TRUE, shapeName |-> RegionName,
      geometry |-> Some(ToGridUnits(NorthKazakhstanBoundary))],
     [props |-> TRUE, shapeName |-> RegionName,
      geometry |-> Some(<<ToGridUnits(NorthKazakhstanBoundary), ToGridUnits(SimpleBoundary)>>)],
     [props |-> TRUE, shapeName |-> RegionName, geometry |-> None],
     [props |-> TRUE, shapeName |-> RegionName, geometry |-> Some(<<>>)]}

MaxFeatures == 2

\* What public/geoBoundaries-KAZ-ADM1.geojson can be: missing or unreadable,
\* not JSON, JSON without a features array, or a collection of features
BoundaryFiles ==
    {[kind |-> k, features |-> <<>>] : k \in {"unreadable", "unparsable", "noFeatures"}}
    \cup {[kind |-> "collection", features |-> fs] :
            fs \in UNION {[1 .. n -> FileFeatures] : n \in 0 .. MaxFeatures}}

\* `allRegions.features.find(feature => feature.properties.shapeName === ...)`:
\* the index of the first feature on which find stops, by a match or by the
\* TypeError of reading shapeName of undefined properties; 0 if there is none
FindStop(features) ==
    LET stops == {i \in DOMAIN features :
                     ~features[i].props \/ features[i].shapeName = RegionName}
    IN  IF stops = {} THEN 0 ELSE MinOf(stops)

Thrown == [threw |-> TRUE, boundary |-> None]
Returned(boundary) == [threw |-> FALSE, boundary |-> Some(boundary)]

\* getSimpleBoundary()
GetSimpleBoundary == Feature(Some(ToGridUnits(SimpleBoundary)))

\* Lines 121-166: the try block of fetchNorthKazakhstanBoundary
TryLoadBoundary(file) ==
    IF file.kind # "collection" THEN Thrown
    ELSE LET k == FindStop(file.features)
         IN  IF k = 0 THEN Thrown
             ELSE IF ~file.features[k].props THEN Thrown
             ELSE IF file.features[k].geometry = None THEN Thrown
             ELSE IF Len(The(file.features[k].geometry)) = 0 THEN Thrown
             ELSE Returned(Feature(file.features[k].geometry))

\* A loader whose catch block rethrows, to compare C18 against
FetchBoundaryRethrowing(file) == TryLoadBoundary(file)

\* fetchNorthKazakhstanBoundary(): the try block, and the catch block of lines
\* 168-172 that returns the fallback
FetchNorthKazakhstanBoundary(file) ==
    IF TryLoadBoundary(file).threw THEN Returned(GetSimpleBoundary)
    ELSE TryLoadBoundary(file)

\* generatePavlodarGrid(step, boundary) for a boundary that is not null: the
\* number of points it returns
RECURSIVE GridSizeFrom(_, _, _)
GridSizeFrom(lat, step, boundary) ==
    IF lat > latMax THEN 0
    ELSE Len(RowAccepted(lat, step, boundary)) + GridSizeFrom(lat + step, step, boundary)

BoundaryIdleState ==
    [pc |-> "idle", caller |-> "none", file |-> [kind |-> "none", features |-> <<>>],
     step |-> 0, loaded |-> None, gridPoints |-> 0,
     resp |-> [status |-> 0, success |-> FALSE, boundary |-> None]]

\* GET /boundary is called; it awaits fetchNorthKazakhstanBoundary()
BoundaryRequest(file) ==
    /\ bl.pc = "idle"
    /\ bl' = [bl EXCEPT !.pc = "loading", !.caller = "boundary", !.file = file]
    /\ UNCHANGED <<now, notBoundaryVars>>

\* app/api/boundary/route.ts lines 5-22: the await settles; the answer
BoundaryRespond ==
    /\ bl.pc = "loading"
    /\ bl.caller = "boundary"
    /\ LET r == FetchNorthKazakhstanBoundary(bl.file)
       IN  bl' = [bl EXCEPT
                    !.pc = "done", !.loaded = Some(r),
                    !.resp = IF r.threw
                             THEN [status |-> 500, success |-> FALSE, boundary |-> None]
                             ELSE [status |-> 200, success |-> TRUE, boundary |-> r.boundary]]
    /\ UNCHANGED <<now, notBoundaryVars>>

\* GET /soil-data misses the cache and awaits fetchNorthKazakhstanBoundary();
\* the forecast path will build the 0.3 grid, the current path the 0.2 grid
SoilDataLoadsBoundary(file, step) ==
    /\ bl.pc = "idle"
    /\ bl' = [bl EXCEPT !.pc = "loading", !.caller = "soil-data", !.file = file,
                        !.step = step]
    /\ UNCHANGED <<now, notBoundaryVars>>

\* part_002 lines 39-42 and 181-184: the await settles and the grid is built;
\* an exception goes to the catch of lines 228-234, which answers 500
SoilDataGridBuilt ==
    /\ bl.pc = "loading"
    /\ bl.caller = "soil-data"
    /\ LET r == FetchNorthKazakhstanBoundary(bl.file)
       IN  bl' = IF r.threw
                 THEN [bl EXCEPT !.pc = "done", !.loaded = Some(r),
                                 !.resp = [status |-> 500, success |-> FALSE, boundary |-> None]]
                 ELSE [bl EXCEPT !.pc = "fetching", !.loaded = Some(r),
                                 !.gridPoints = GridSizeFrom(latMin, bl.step, The(r.boundary))]
    /\ UNCHANGED <<now, notBoundaryVars>>

BoundaryIdle == bl = BoundaryIdleState


(***************************************************************************)
(* The geometry functions called on their own (lib/geoUtils.ts).  The      *)
(* rings tried are simple rings on a small integer lattice, each in every  *)
(* rotation, in both orientations, with and without the closing vertex.    *)
(***************************************************************************)
Reverse(s) == [i \in DOMAIN s |-> s[Len(s) + 1 - i]]
Rotate(s, k) == [i \in DOMAIN s |-> s[((i + k - 1) % Len(s)) + 1]]
Closed(s) == Append(s, s[1])

\* Simple rings, as <<lon, lat>> vertices without the closing vertex: a
\* triangle, a square, an L, a dart and a U
BaseRings ==
    {<< <<0, 0>>, <<4, 0>>, <<2, 4>> >>,
     << <<0, 0>>, <<4, 0>>, <<4, 4>>, <<0, 4>> >>,
     << <<0, 0>>, <<4, 0>>, <<4, 2>>, <<2, 2>>, <<2, 4>>, <<0, 4>> >>,
     << <<0, 0>>, <<2, 2>>, <<4, 0>>, <<2, 4>> >>,
     << <<0, 0>>, <<4, 0>>, <<4, 4>>, <<3, 4>>, <<3, 1>>, <<1, 1>>, <<1, 4>>, <<0, 4>> >>}

\* The ways one ring can be written down
RingWritings(base) ==
    LET turned == {Rotate(base, k) : k \in 0 .. Len(base) - 1}
        either == turned \cup {Reverse(r) : r \in turned}
    IN  either \cup {Closed(r) : r \in either}

\* Rings too short to be a polygon, and the empty ring
ShortRings == {<<>>, << <<0, 0>> >>, << <<0, 0>>, <<4, 4>> >>}

\* The polygon arguments: null, an array without a ring, and a ring; base is
\* the simple ring the argument writes down, or the empty sequence
PolygonArgs ==
    {[polygon |-> None, base |-> <<>>], [polygon |-> Some(<<>>), base |-> <<>>]}
    \cup {[polygon |-> Some(<<r>>), base |-> <<>>] : r \in ShortRings}
    \cup UNION {{[polygon |-> Some(<<r>>), base |-> b] : r \in RingWritings(b)} : b \in BaseRings}

\* The test points: every lattice point in and around the rings
TestPoints == {<<x, y>> : x \in (0 - 1) .. 5, y \in (0 - 1) .. 5}

\* A call of isPointInPolygon(point, polygon): line 13 answers for null, the
\* function body for an array
IsPointInPolygonCall(point, polygon) ==
    IF polygon = None THEN [raised |-> FALSE, value |-> FALSE]
    ELSE [raised |-> FALSE, value |-> IsPointInPolygon(point, The(polygon))]

\* A call of getBoundingBox(polygon): line 83 answers for null
GetBoundingBoxCall(polygon) ==
    IF polygon = None
    THEN [raised |-> FALSE, value |-> GetBoundingBox(<<>>)]
    ELSE [raised |-> FALSE, value |-> GetBoundingBox(The(polygon))]

GeometryIdleState ==
    [fn |-> "none", point |-> <<0, 0>>, polygon |-> None, base |-> <<>>,
     result |-> [raised |-> FALSE, value |-> FALSE]]

CallIsPointInPolygon(point, arg) ==
    /\ geo.fn = "none"
    /\ geo' = [fn |-> "isPointInPolygon", point |-> point, polygon |-> arg.polygon,
               base |-> arg.base, result |-> IsPointInPolygonCall(point, arg.polygon)]
    /\ UNCHANGED <<now, notGeometryVars>>

CallGetBoundingBox(arg) ==
    /\ geo.fn = "none"
    /\ geo' = [fn |-> "getBoundingBox", point |-> <<0, 0>>, polygon |-> arg.polygon,
               base |-> arg.base, result |-> GetBoundingBoxCall(arg.polygon)]
    /\ UNCHANGED <<now, notGeometryVars>>

GeometryIdle == geo = GeometryIdleState


(***************************************************************************)
(* simplifyPolygon (lib/geoUtils.ts lines 125-192).  Coordinates and the   *)
(* tolerance are integers.  Distances to one segment are compared by their *)
(* squares multiplied with the squared length of the segment, which keeps  *)
(* the comparisons of lines 175 and 181 exact.                             *)
(***************************************************************************)
\* distanceToSegment(point, start, end), squared, times lenSq (times 1 if lenSq is 0)
DistToSegmentSqScaled(p, s, e) ==
    LET A == p[1] - s[1]
        B == p[2] - s[2]
        C == e[1] - s[1]
        D == e[2] - s[2]
        dot == A * C + B * D
        lenSq == C * C + D * D
    IN  IF lenSq = 0 THEN A * A + B * B
        ELSE IF dot < 0 THEN (A * A + B * B) * lenSq
        ELSE IF dot > lenSq
        THEN ((p[1] - e[1]) * (p[1] - e[1]) + (p[2] - e[2]) * (p[2] - e[2])) * lenSq
        ELSE (A * D - B * C) * (A * D - B * C)

\* the factor the squared tolerance takes in the same scale
SegmentScale(s, e) ==
    LET lenSq == (e[1] - s[1]) * (e[1] - s[1]) + (e[2] - s[2]) * (e[2] - s[2])
    IN  IF lenSq = 0 THEN 1 ELSE lenSq

\* Lines 170-179: maxDist (scaled as above) over the interior points
MaxDistOf(points) ==
    MaxOf({0} \cup {DistToSegmentSqScaled(points[i], points[1], points[Len(points)]) :
                      i \in 2 .. Len(points) - 1})

\* Lines 170-179: maxIndex, counted from 0 as in the code: the first interior
\* point at the largest distance, or 0 if no distance exceeds 0
MaxIndexOf(points) ==
    IF MaxDistOf(points) = 0 THEN 0
    ELSE MinOf({i \in 2 .. Len(points) - 1 :
                  DistToSegmentSqScaled(points[i], points[1], points[Len(points)])
                      = MaxDistOf(points)}) - 1

\* Line 181: `maxDist > tolerance`
ExceedsTolerance(points, tolerance) ==
    IF tolerance < 0 THEN TRUE
    ELSE MaxDistOf(points) > tolerance * tolerance * SegmentScale(points[1], points[Len(points)])

\* `left.slice(0, -1)`
AllButLast(s) == SubSeq(s, 1, Len(s) - 1)

MaxCallDepth == 12      \* douglasPeucker calls the engine's stack holds

\* The rings tried, as polygons: a closed triangle, square, L and dart, a
\* square with a vertex in the middle of an edge, an open chain of three
\* points on a line, and a ring of two points
SimplifyPolygons ==
    {<<Closed(r)>> : r \in BaseRings \ {r \in BaseRings : Len(r) > 6}}
    \cup {<< << <<0, 0>>, <<2, 0>>, <<4, 0>>, <<4, 4>>, <<0, 4>>, <<0, 0>> >> >>,
          << << <<0, 0>>, <<2, 0>>, <<4, 0>> >> >>,
          << << <<0, 0>>, <<4, 4>> >> >>}

Tolerances == {0 - 1, 0, 1, 3}

SimplifyIdleState ==
    [pc |-> "idle", polygon |-> <<>>, tolerance |-> 0, stack |-> <<>>, out |-> <<>>,
     calls |-> 0, deepest |-> 0, shrinking |-> TRUE, result |-> <<>>]

\* simplifyPolygon(polygon, tolerance), lines 125-131 and 190: a ring of fewer
\* than 3 points is returned as it is, else douglasPeucker is called on the ring
CallSimplifyPolygon(polygon, tolerance) ==
    /\ dp.pc = "idle"
    /\ dp' = IF Len(polygon[1]) < 3
             THEN [dp EXCEPT !.pc = "done", !.polygon = polygon, !.tolerance = tolerance,
                             !.result = polygon]
             ELSE [dp EXCEPT !.pc = "running", !.polygon = polygon, !.tolerance = tolerance,
                             !.stack = <<[points |-> polygon[1], depth |-> 1,
                                          callerSize |-> Len(polygon[1]) + 1,
                                          keepLast |-> TRUE]>>]
    /\ UNCHANGED <<now, notSimplifyVars>>

\* One douglasPeucker call, lines 167-188: the innermost pending call runs up
\* to its own recursive calls (the left one runs first) or to its return.  A
\* call deeper than the stack holds ends the run with a RangeError.
DouglasPeuckerCall ==
    /\ dp.pc = "running"
    /\ dp.stack # <<>>
    /\ LET f == Head(dp.stack)
           rest == Tail(dp.stack)
           n == Len(f.points)
           seen == [dp EXCEPT !.calls = @ + 1,
                              !.deepest = IF f.depth > @ THEN f.depth ELSE @,
                              !.shrinking = @ /\ n < f.callerSize]
           Emit(res) == [seen EXCEPT !.stack = rest,
                                     !.out = @ \o (IF f.keepLast THEN res ELSE AllButLast(res))]
       IN  dp' = IF f.depth > MaxCallDepth
                 THEN [seen EXCEPT !.pc = "overflow"]
                 ELSE IF n <= 2 THEN Emit(f.points)
                 ELSE IF ExceedsTolerance(f.points, dp.tolerance)
                 THEN LET m == MaxIndexOf(f.points)
                          left == [points |-> SubSeq(f.points, 1, m + 1), depth |-> f.depth + 1,
                                   callerSize |-> n, keepLast |-> FALSE]
                          right == [points |-> SubSeq(f.points, m + 1, n), depth |-> f.depth + 1,
                                    callerSize |-> n, keepLast |-> f.keepLast]
                      IN  [seen EXCEPT !.stack = <<left, right>> \o rest]
                 ELSE Emit(<<f.points[1], f.points[n]>>)
    /\ UNCHANGED <<now, notSimplifyVars>>

\* Lines 190-191: `return [simplified]`
ReturnSimplified ==
    /\ dp.pc = "running"
    /\ dp.stack = <<>>
    /\ dp' = [dp EXCEPT !.pc = "done", !.result = <<dp.out>>]
    /\ UNCHANGED <<now, notSimplifyVars>>

SimplifyIdle == dp = SimplifyIdleState


(***************************************************************************)
(* idwInterpolate with the power and maxDistance of the caller             *)
(* (lib/idwInterpolation.ts lines 5-43).  Coordinates and maxDistance are  *)
(* integers in units of 0.0005 degree, so that two points one unit apart   *)
(* are closer than 0.001 degree and two points two units apart are not.    *)
(* The power is even, which keeps every weight a fraction.                 *)
(***************************************************************************)
MaxIdwCoord == 6        \* largest latitude of a target or sample, in units

IdwLats == 0 .. MaxIdwCoord
IdwLons == {0, 1}
IdwValues == {Num(0), Num(100), NaN}
IdwSamples == [lat : IdwLats, lon : IdwLons, value : IdwValues]
IdwDataSets ==
    {<<>>} \cup {<<a>> : a \in IdwSamples} \cup {<<a, b>> : a \in IdwSamples, b \in IdwSamples}
Powers == {0, 2, 4}
MaxDistances == {0 - 1, 1, 2, 4000}     \* 4000 units are the default 2.0 degrees

\* Line 23: `distance > maxDistance`, the distance being a square root
IdwTooFarInclusive(d2, maxDistance) == maxDistance <= 0 \/ d2 >= maxDistance * maxDistance
IdwTooFar(d2, maxDistance) == maxDistance < 0 \/ d2 > maxDistance * maxDistance

\* Line 28: `distance < 0.001`, 0.001 degree being 2 units
IdwOnPointWider(d2) == d2 < 9
IdwOnPoint(d2) == d2 < 4

\* Line 33: Math.pow(distance, power), for an even power
RECURSIVE PowHalf(_, _)
PowHalf(d2, power) == IF power = 0 THEN 1 ELSE d2 * PowHalf(d2, power - 2)

\* The loop of lines 16-42 with power and maxDistance as passed.  acc is as in
\* IdwLoop: valueSum = vn / den, weightSum = wn / den.
RECURSIVE IdwLoopWith(_, _, _, _, _, _, _)
IdwLoopWith(lat, lon, pts, power, maxDistance, i, acc) ==
    IF i > Len(pts)
    THEN IF ~acc.has \/ acc.wn = 0 THEN None
         ELSE IF acc.nan THEN Some(NaN)
         ELSE Some(Frac(acc.vn, acc.wn))
    ELSE LET p == pts[i]
             d2 == DistSq(lat, lon, p)
             w == PowHalf(d2, power)
         IN  IF IdwTooFar(d2, maxDistance)
             THEN IdwLoopWith(lat, lon, pts, power, maxDistance, i + 1, acc)
             ELSE IF IdwOnPoint(d2) THEN Some(p.value)
             ELSE IdwLoopWith(lat, lon, pts, power, maxDistance, i + 1,
                              [vn |-> acc.vn * w + p.value.n * acc.den,
                               wn |-> acc.wn * w + acc.den,
                               den |-> acc.den * w,
                               nan |-> acc.nan \/ p.value.nan,
                               has |-> TRUE])

\* idwInterpolate(targetLat, targetLon, dataPoints, power, maxDistance)
IdwInterpolateWith(lat, lon, pts, power, maxDistance) ==
    IdwLoopWith(lat, lon, pts, power, maxDistance, 1,
                [vn |-> 0, wn |-> 0, den |-> 1, nan |-> FALSE, has |-> FALSE])

IdwIdleState ==
    [called |-> FALSE, lat |-> 0, lon |-> 0, pts |-> <<>>, power |-> 2, maxDistance |-> 4000,
     result |-> None]

\* The arguments one call is made with
IdwCalls ==
    {[called |-> FALSE, lat |-> lat, lon |-> 0, pts |-> pts, power |-> power,
      maxDistance |-> maxDistance, result |-> None] :
        lat \in IdwLats, pts \in IdwDataSets, power \in Powers, maxDistance \in MaxDistances}

\* One call of idwInterpolate, with the arguments held in idw
CallIdwInterpolate ==
    /\ ~idw.called
    /\ idw' = [idw EXCEPT !.called = TRUE,
                          !.result = IdwInterpolateWith(idw.lat, idw.lon, idw.pts, idw.power,
                                                        idw.maxDistance)]
    /\ UNCHANGED <<now, notIdwVars>>

IdwIdle == idw = IdwIdleState


(***************************************************************************)
(* Home (app/page.tsx) and the Map instance it renders (Map lines 29-135). *)
(* Home keeps the layer, the forecast length and the selected day; on a    *)
(* change of layer or forecast length its effect resets the day and bumps  *)
(* mapKey, which replaces the Map instance.  A request is the closure of   *)
(* the fetchData call that sent it: instance, layer, days, day.  Time is   *)
(* counted in hours.                                                       *)
(***************************************************************************)
MaxAppHours == 2        \* hours the page stays open
MaxMapKey == 3          \* largest mapKey reached
MaxSelectedDay == 1     \* largest day the time slider offers
MaxAppInflight == 2     \* /soil-data requests of the page in flight at the same time

ForecastDayOptions == {3, 7}            \* page.tsx lines 64-67, two of the four options
AppLayers == {"moisture", "temperature"}
SliderDays == 0 .. MaxSelectedDay

MapProps(a) == [layer |-> a.currentLayer, days |-> a.forecastDays, day |-> a.currentDay]

\* Map lines 131-134: the interval is created only for the current-day view
StartsInterval(props) == props.days <= 1 /\ props.day = 0

\* fetchData called from the instance key with the props of its closure, lines 44-55
SendRequest(a, key, props, hour) ==
    [a EXCEPT !.inflight = Append(@, [key |-> key, props |-> props]),
              !.loading = IF key = a.mapKey THEN TRUE ELSE @,
              !.error = IF key = a.mapKey THEN FALSE ELSE @,
              !.lastFetch = hour]

\* The effect of Map lines 127-135 runs for the instance key with props
RunMapEffect(a, key, props, hour) ==
    [SendRequest(a, key, props, hour) EXCEPT
        !.intervals = IF StartsInterval(props) THEN @ \cup {[key |-> key, props |-> props]}
                      ELSE @]

\* The cleanup the effect returned: clearInterval of its own interval
CleanupMapEffect(a, key, props) ==
    [a EXCEPT !.intervals = @ \ {[key |-> key, props |-> props]}]

\* page.tsx lines 33-37 after a commit with new layer or forecast length: the
\* day is reset and mapKey bumped; the old Map instance unmounts (its effect
\* is cleaned up), a new one mounts with empty data and runs its effect
RemountMap(a, hour) ==
    LET old == MapProps(a)
        a1 == CleanupMapEffect(a, a.mapKey, old)
        a2 == [a1 EXCEPT !.currentDay = 0, !.mapKey = @ + 1, !.data = None,
                         !.loading = TRUE, !.error = FALSE]
    IN  RunMapEffect(a2, a2.mapKey, MapProps(a2), hour)

\* A commit in which the props of the mounted Map changed: its effect is
\* cleaned up and runs again with the new props
RerunMapEffect(a0, a1, hour) ==
    RunMapEffect(CleanupMapEffect(a1, a1.mapKey, MapProps(a0)), a1.mapKey, MapProps(a1), hour)

AppIdleState ==
    [currentLayer |-> "moisture", forecastDays |-> 7, currentDay |-> 0, mapKey |-> 1,
     slider |-> FALSE, data |-> None, loading |-> TRUE, error |-> FALSE,
     inflight |-> <<[key |-> 1, props |-> [layer |-> "moisture", days |-> 7, day |-> 0]]>>,
     intervals |-> {}, hour |-> 0, lastFetch |-> 0, overtaken |-> FALSE]

\* The forecast selector, page.tsx lines 60-62
SelectForecastDays(n) ==
    /\ n # app.forecastDays
    /\ app.mapKey < MaxMapKey
    /\ Len(app.inflight) + 2 <= MaxAppInflight + 1
    /\ LET a1 == [app EXCEPT !.forecastDays = n]
       IN  app' = RemountMap(RerunMapEffect(app, a1, app.hour), app.hour)
    /\ UNCHANGED <<now, notAppVars>>

\* LayerControl's onChange, page.tsx line 86
SelectLayer(l) ==
    /\ l # app.currentLayer
    /\ app.mapKey < MaxMapKey
    /\ Len(app.inflight) + 2 <= MaxAppInflight + 1
    /\ LET a1 == [app EXCEPT !.currentLayer = l]
       IN  app' = RemountMap(RerunMapEffect(app, a1, app.hour), app.hour)
    /\ UNCHANGED <<now, notAppVars>>

\* TimeSlider's onChange, page.tsx lines 93-97; the slider is there once
\* dates have been reported
SelectDay(k) ==
    /\ app.slider
    /\ k # app.currentDay
    /\ Len(app.inflight) < MaxAppInflight
    /\ LET a1 == [app EXCEPT !.currentDay = k]
       IN  app' = RerunMapEffect(app, a1, app.hour)
    /\ UNCHANGED <<now, notAppVars>>

\* The response to the i-th request in flight arrives, Map lines 55-66 and
\* 98-100: the instance that sent it, if still mounted, shows it; the dates of
\* a forecast response go to the page in any case
SoilDataResponds(i) ==
    /\ i \in 1 .. Len(app.inflight)
    /\ LET r == app.inflight[i]
           rest == SubSeq(app.inflight, 1, i - 1) \o SubSeq(app.inflight, i + 1, Len(app.inflight))
           mine == r.key = app.mapKey
       IN  app' = [app EXCEPT !.inflight = rest,
                              !.data = IF mine THEN Some(r.props) ELSE @,
                              !.loading = IF mine THEN FALSE ELSE @,
                              !.slider = @ \/ r.props.days > 1 \/ r.props.day > 0,
                              !.overtaken = @ \/ (mine /\ \E j \in 1 .. i - 1 :
                                                            app.inflight[j].key = r.key)]
    /\ UNCHANGED <<now, notAppVars>>

\* The i-th request in flight fails, Map lines 95-100
SoilDataFails(i) ==
    /\ i \in 1 .. Len(app.inflight)
    /\ LET r == app.inflight[i]
           rest == SubSeq(app.inflight, 1, i - 1) \o SubSeq(app.inflight, i + 1, Len(app.inflight))
           mine == r.key = app.mapKey
       IN  app' = [app EXCEPT !.inflight = rest,
                              !.error = IF mine THEN TRUE ELSE @,
                              !.loading = IF mine THEN FALSE ELSE @]
    /\ UNCHANGED <<now, notAppVars>>

\* An hour passes: every interval that is active calls its fetchData
RECURSIVE FireIntervals(_, _, _)
FireIntervals(a, ts, hour) ==
    IF ts = {} THEN a
    ELSE LET t == CHOOSE x \in ts : TRUE
         IN  FireIntervals(SendRequest(a, t.key, t.props, hour), ts \ {t}, hour)

HourPasses ==
    /\ app.hour < MaxAppHours
    /\ Len(app.inflight) + Cardinality(app.intervals) <= MaxAppInflight
    /\ app' = FireIntervals([app EXCEPT !.hour = @ + 1], app.intervals, app.hour + 1)
    /\ UNCHANGED <<now, notAppVars>>

AppIdle == app = AppIdleState


(***************************************************************************)
(* The daily extraction of fetchSoilForecast (lib/openMeteoClient.ts lines *)
(* 372-405) and the selection of one day in the /soil-data handler (lines  *)
(* 90-122), for one grid point.  Of the hourly array only its length and   *)
(* the entries at the noon indices 24 * day + 12 are kept; an entry is     *)
(* null or a whole number.  A moisture value is given in percent when it   *)
(* is above 1 and as a fraction when it is 0 or 1.                         *)
(***************************************************************************)
MaxForecastDays == 3    \* the forecastDays the point was fetched with

NoonIndex(day) == day * 24 + 12

HourlyValues == {None, Some(0), Some(1), Some(30)}

\* The hourly arrays tried: every noon entry null or a number, the array
\* complete or ending before the noon of the last day
HourlyArrays ==
    [length : {MaxForecastDays * 24, MaxForecastDays * 24 - 12},
     noon : [0 .. MaxForecastDays - 1 -> HourlyValues]]

\* Lines 382-387: `processedValue * 100` for a moisture value between 0 and 1
ProcessedValue(layer, v) == IF layer = "moisture" /\ v >= 0 /\ v <= 1 THEN v * 100 ELSE v

\* Line 379: `noonIndex < values.length && values[noonIndex] !== null`
HasNoon(values, day) == NoonIndex(day) < values.length /\ values.noon[day] # None

\* The dailyData entry of lines 396-403; time and date are those of the noon hour
DailyEntry(layer, values, day) ==
    [time |-> NoonIndex(day), date |-> day,
     value |-> ProcessedValue(layer, The(values.noon[day]))]

\* Lines 373-405: one entry per day that has a noon value, pushed in day order
RECURSIVE DailyData(_, _, _)
DailyData(layer, values, day) ==
    IF day >= MaxForecastDays THEN <<>>
    ELSE (IF HasNoon(values, day) THEN <<DailyEntry(layer, values, day)>> ELSE <<>>)
         \o DailyData(layer, values, day + 1)

\* The handler, lines 91-113: `forecast.forecast[selectedDay]`, the point
\* dropped by the filter when there is no such element
SelectedDayPoint(forecast, selectedDay) ==
    IF selectedDay + 1 > Len(forecast) THEN None
    ELSE LET dayData == forecast[selectedDay + 1]
         IN  Some([value |-> dayData.value, timestamp |-> dayData.time, date |-> dayData.date])

ExtractIdleState ==
    [pc |-> "idle", layer |-> "moisture", values |-> [length |-> 0, noon |-> <<>>],
     forecast |-> <<>>, selectedDay |-> 0, point |-> None]

\* The inputs of one run: layer, hourly array, selected day
ExtractInputs ==
    {[ExtractIdleState EXCEPT !.pc = "fetching", !.layer = l, !.values = v, !.selectedDay = k] :
        l \in {"moisture", "temperature"}, v \in HourlyArrays, k \in 0 .. MaxForecastDays - 1}

\* fetchSoilForecast returns the point's daily list
BuildDailyData ==
    /\ fx.pc = "fetching"
    /\ fx' = [fx EXCEPT !.pc = "fetched", !.forecast = DailyData(fx.layer, fx.values, 0)]
    /\ UNCHANGED <<now, notExtractVars>>

\* The handler extracts the selected day
ExtractSelectedDay ==
    /\ fx.pc = "fetched"
    /\ fx' = [fx EXCEPT !.pc = "answered", !.point = SelectedDayPoint(fx.forecast, fx.selectedDay)]
    /\ UNCHANGED <<now, notExtractVars>>

ExtractIdle == fx = ExtractIdleState

(***************************************************************************)
(* Specifications                                                          *)
(***************************************************************************)
InitCache ==
    /\ now = 0
    /\ CacheIdle
    /\ RouteIdle
    /\ RenderIdle
    /\ RasterIdle
    /\ ExtractIdle
    /\ AppIdle
    /\ IdwIdle
    /\ SimplifyIdle
    /\ GeometryIdle
    /\ BoundaryIdle
    /\ GridIdle
    /\ FetchIdle

NextCache ==
    \/ \E k \in TestKeys, v \in TestValues, ttl \in TestTTLs : DoSet(k, v, ttl)
    \/ \E k \in TestKeys : DoGet(k)
    \/ \E k \in TestKeys : DoHas(k)
    \/ DoClear
    \/ DoSize
    \/ ClockAdvance

SpecCache == InitCache /\ [][NextCache]_vars

InitRoute ==
    /\ now = 0
    /\ CacheIdle
    /\ RouteIdle
    /\ RenderIdle
    /\ RasterIdle
    /\ ExtractIdle
    /\ AppIdle
    /\ IdwIdle
    /\ SimplifyIdle
    /\ GeometryIdle
    /\ BoundaryIdle
    /\ GridIdle
    /\ FetchIdle

NextRoute ==
    \/ \E r \in Slots : ArriveInvalid(r)
    \/ \E r \in Slots : ArriveForecast(r)
    \/ \E r \in Slots : ArriveCurrent(r)
    \/ \E r \in Slots : SettleBatch(r)
    \/ \E r \in Slots : SettleLastBatch(r)
    \/ \E r \in Slots : DelayElapsed(r)
    \/ \E r \in Slots : SettleAll(r)
    \/ RouteTick

SpecRoute == InitRoute /\ [][NextRoute]_vars

InitRender ==
    /\ now = 0
    /\ CacheIdle
    /\ RouteIdle
    /\ RenderIdle
    /\ RasterIdle
    /\ ExtractIdle
    /\ AppIdle
    /\ IdwIdle
    /\ SimplifyIdle
    /\ GeometryIdle
    /\ BoundaryIdle
    /\ GridIdle
    /\ FetchIdle

NextRender ==
    \/ FetchData
    \/ \E d \in DataSets : FetchResolved(d)
    \/ FetchRejected
    \/ \E l \in MapLayers : LayerChange(l)
    \/ \E e \in MapEvents, b \in ViewBounds : MapEvent(e, b)
    \/ TimerFire
    \/ RenderTick

SpecRender == InitRender /\ [][NextRender]_vars

InitRaster ==
    /\ now = 0
    /\ CacheIdle
    /\ RouteIdle
    /\ RenderIdle
    /\ RasterIdle
    /\ ExtractIdle
    /\ AppIdle
    /\ IdwIdle
    /\ SimplifyIdle
    /\ GeometryIdle
    /\ BoundaryIdle
    /\ GridIdle
    /\ FetchIdle

NextRaster ==
    \/ \E data \in SampleSets, layer \in MapLayers, boundary \in BoundaryProps :
          StartRender(data, layer, boundary)
    \/ PaintCell
    \/ FinishRender

SpecRaster == InitRaster /\ [][NextRaster]_vars


InitFetch ==
    /\ now = 0
    /\ CacheIdle
    /\ RouteIdle
    /\ RenderIdle
    /\ RasterIdle
    /\ ExtractIdle
    /\ AppIdle
    /\ IdwIdle
    /\ SimplifyIdle
    /\ GeometryIdle
    /\ BoundaryIdle
    /\ GridIdle
    /\ FetchIdle

NextFetch ==
    \/ \E m \in MaxRetriesArgs : CallFetchSoilForecast(m)
    \/ \E o \in UpstreamOutcomes : UpstreamAnswers(o)
    \/ WaitElapsed
    \/ LoopExhausted

SpecFetch == InitFetch /\ [][NextFetch]_vars

\* Every request settles (the 15 s AbortSignal.timeout) and every timer fires
SpecFetchFair == SpecFetch /\ WF_vars(NextFetch)


InitGrid ==
    /\ now = 0
    /\ CacheIdle
    /\ RouteIdle
    /\ RenderIdle
    /\ RasterIdle
    /\ ExtractIdle
    /\ AppIdle
    /\ IdwIdle
    /\ SimplifyIdle
    /\ GeometryIdle
    /\ BoundaryIdle
    /\ FetchIdle
    /\ GridIdle

NextGrid ==
    \/ \E step \in GridSteps, boundary \in GridBoundaries : CallGeneratePavlodarGrid(step, boundary)
    \/ ScanRow
    \/ ScanFallbackRow
    \/ \E step \in GridSteps : CallGenerateGridFiltered(step)
    \/ ScanStaticRow
    \/ ReturnGrid
    \/ CallAgain

SpecGrid == InitGrid /\ [][NextGrid]_vars


InitBoundary ==
    /\ now = 0
    /\ CacheIdle
    /\ RouteIdle
    /\ RenderIdle
    /\ RasterIdle
    /\ ExtractIdle
    /\ AppIdle
    /\ IdwIdle
    /\ SimplifyIdle
    /\ GeometryIdle
    /\ FetchIdle
    /\ GridIdle
    /\ BoundaryIdle

NextBoundary ==
    \/ \E file \in BoundaryFiles : BoundaryRequest(file)
    \/ BoundaryRespond
    \/ \E file \in BoundaryFiles, step \in {3000, 2000} : SoilDataLoadsBoundary(file, step)
    \/ SoilDataGridBuilt

SpecBoundary == InitBoundary /\ [][NextBoundary]_vars


InitGeometry ==
    /\ now = 0
    /\ CacheIdle
    /\ RouteIdle
    /\ RenderIdle
    /\ RasterIdle
    /\ ExtractIdle
    /\ AppIdle
    /\ IdwIdle
    /\ SimplifyIdle
    /\ FetchIdle
    /\ GridIdle
    /\ BoundaryIdle
    /\ GeometryIdle

NextGeometry ==
    \/ \E point \in TestPoints, arg \in PolygonArgs : CallIsPointInPolygon(point, arg)
    \/ \E arg \in PolygonArgs : CallGetBoundingBox(arg)

SpecGeometry == InitGeometry /\ [][NextGeometry]_vars


InitSimplify ==
    /\ now = 0
    /\ CacheIdle
    /\ RouteIdle
    /\ RenderIdle
    /\ RasterIdle
    /\ ExtractIdle
    /\ AppIdle
    /\ IdwIdle
    /\ FetchIdle
    /\ GridIdle
    /\ BoundaryIdle
    /\ GeometryIdle
    /\ SimplifyIdle

NextSimplify ==
    \/ \E polygon \in SimplifyPolygons, tolerance \in Tolerances :
          CallSimplifyPolygon(polygon, tolerance)
    \/ DouglasPeuckerCall
    \/ ReturnSimplified

SpecSimplify == InitSimplify /\ [][NextSimplify]_vars

\* Every pending call runs
SpecSimplifyFair == SpecSimplify /\ WF_vars(NextSimplify)


InitIdw ==
    /\ now = 0
    /\ CacheIdle
    /\ RouteIdle
    /\ RenderIdle
    /\ RasterIdle
    /\ ExtractIdle
    /\ AppIdle
    /\ FetchIdle
    /\ GridIdle
    /\ BoundaryIdle
    /\ GeometryIdle
    /\ SimplifyIdle
    /\ idw \in IdwCalls

NextIdw == CallIdwInterpolate

SpecIdw == InitIdw /\ [][NextIdw]_vars


InitApp ==
    /\ now = 0
    /\ CacheIdle
    /\ RouteIdle
    /\ RenderIdle
    /\ RasterIdle
    /\ ExtractIdle
    /\ FetchIdle
    /\ GridIdle
    /\ BoundaryIdle
    /\ GeometryIdle
    /\ SimplifyIdle
    /\ IdwIdle
    /\ AppIdle

NextApp ==
    \/ \E n \in ForecastDayOptions : SelectForecastDays(n)
    \/ \E l \in AppLayers : SelectLayer(l)
    \/ \E k \in SliderDays : SelectDay(k)
    \/ \E i \in 1 .. MaxAppInflight + 1 : SoilDataResponds(i)
    \/ \E i \in 1 .. MaxAppInflight + 1 : SoilDataFails(i)
    \/ HourPasses

SpecApp == InitApp /\ [][NextApp]_vars


InitExtract ==
    /\ now = 0
    /\ CacheIdle
    /\ RouteIdle
    /\ RenderIdle
    /\ RasterIdle
    /\ FetchIdle
    /\ GridIdle
    /\ BoundaryIdle
    /\ GeometryIdle
    /\ SimplifyIdle
    /\ IdwIdle
    /\ AppIdle
    /\ fx \in ExtractInputs

NextExtract ==
    \/ BuildDailyData
    \/ ExtractSelectedDay

SpecExtract == InitExtract /\ [][NextExtract]_vars

(***************************************************************************)
(* Claims                                                                  *)
(***************************************************************************)

\* C2: get(k) returns the value of the most recent set(k, v, ttl) while the clock
\* is not past set time + ttl (ttl defaulting to one hour) and reports a miss
\* otherwise (has answers the same way); an expired entry stays in the store
\* until the next get or has on its key, which removes it.
C2_GetFollowsStatedExpiry ==
    /\ ret.op = "get" => ret.val = ret.expect
    /\ ret.op = "has" => ret.hit = (ret.expect # None)
    /\ DOMAIN cache = {k \in TestKeys : absCache[k] # None}

\* The requests that passed the layer check
Served == {r \in Slots : req[r].kind \in {"forecast", "current"}}
Answered == {r \in Served : req[r].pc = "done"}
PartialPass(info) == info.ok # {} /\ Cardinality(info.ok) < info.total
PointsOf(data) == {data[i].p : i \in DOMAIN data}

\* C1: when some but not all upstream fetches of a pass failed, every request
\* answered from that pass (the one that fetched, and the ones served from the
\* cache; current conditions and forecast, the selected day lying inside the
\* window) gets a 200 response whose data holds exactly the points whose fetch
\* succeeded, with validPoints < totalPoints.
C1_PartialFailureStillServes ==
    \A r \in Answered :
        (PartialPass(The(req[r].src)) /\ (req[r].kind = "forecast" => req[r].day < req[r].days))
        => /\ req[r].resp.status = 200
           /\ PointsOf(req[r].resp.data) = The(req[r].src).ok
           /\ req[r].resp.validPoints < req[r].resp.totalPoints

\* C1 on the current-conditions path alone
C1_CurrentPathServesPartial ==
    \A r \in Answered :
        (PartialPass(The(req[r].src)) /\ req[r].kind = "current")
        => /\ req[r].resp.status = 200
           /\ PointsOf(req[r].resp.data) = The(req[r].src).ok
           /\ req[r].resp.validPoints < req[r].resp.totalPoints

\* C3: a request that arrives within one hour (current conditions) or two hours
\* (forecast) of the last store for its entry is answered from the cache with
\* no boundary load and no upstream call; any other request loads the boundary,
\* goes upstream and has stored an entry by the time it is answered.
C3_CachedForStatedLifetime ==
    \A r \in Served :
        /\ req[r].fresh =>
              /\ req[r].pc = "done" /\ req[r].hit
              /\ req[r].boundaryLoads = 0 /\ req[r].upstream = 0
              /\ ~req[r].stored
        /\ ~req[r].fresh =>
              /\ ~req[r].hit
              /\ req[r].boundaryLoads = 1 /\ req[r].upstream > 0
              /\ req[r].pc = "done" =>
                    /\ req[r].stored
                    /\ stated[LogicalOf(req[r])] # None

\* C3 witness: a forecast request that arrived after the two hours had passed
\* went upstream and stored a new entry.
C3_Witness_RefetchAfterExpiry ==
    \E r \in Answered :
        /\ req[r].kind = "forecast" /\ req[r].refetch
        /\ ~req[r].hit /\ req[r].stored /\ req[r].upstream = ForecastGridSize

\* C4: a request only ever reads, and only ever replaces, an entry stored for
\* its own layer, kind and forecast-day count; and a forecast request finds the
\* entry stored for its layer and day count whatever day it selects.
C4_KeyedByLayerAndWindow ==
    \A r \in Served :
        /\ req[r].hit => LogicalOf(The(req[r].src)) = LogicalOf(req[r])
        /\ req[r].overwrote # None => LogicalOf(The(req[r].overwrote)) = LogicalOf(req[r])
        /\ (req[r].kind = "forecast" /\ req[r].fresh) => req[r].hit

\* C4 witness: a forecast request was served from the entry stored by a request
\* that selected another day.
C4_Witness_SharedAcrossDays ==
    \E r \in Answered :
        /\ req[r].kind = "forecast" /\ req[r].hit
        /\ The(req[r].src).day # req[r].day
        /\ The(req[r].src).days = req[r].days

\* C5: with CanvasHeatMap mounted, at most one render is pending, and it is due
\* 100 ms after the last trigger (mount, data or layer change, zoomend, moveend,
\* resize); after a trigger exactly one render executes, 100 ms after the last
\* trigger of the burst, and none before.
C5_DebounceOneRenderPerBurst ==
    /\ Cardinality(heat.timers) <= 1
    /\ \A t \in heat.timers :
          obs.lastTrigger >= 0 /\ t.due = obs.lastTrigger + DEBOUNCE_MS
    /\ heat.mounted = (obs.lastTrigger >= 0)
    /\ obs.lastTrigger >= 0 =>
          /\ obs.rendersSince = 0 => Cardinality(heat.timers) = 1
          /\ obs.rendersSince >= 1 =>
                /\ obs.rendersSince = 1
                /\ heat.timers = {}
                /\ The(obs.lastRender).delay = DEBOUNCE_MS
          /\ now > obs.lastTrigger + DEBOUNCE_MS => obs.rendersSince = 1

\* C5 witness: a burst of three or more triggers, the last of them a viewport
\* event, ended in one render.
C5_Witness_BurstRenderedOnce ==
    /\ obs.burst >= 3
    /\ obs.trigger \in MapEvents
    /\ obs.rendersSince = 1
    /\ now = obs.lastTrigger + DEBOUNCE_MS

\* C6: every pending render and every overlay on the map was made from the
\* sample set and layer CanvasHeatMap has now, and no render has ever executed
\* from a closure holding another set or layer, or after the unmount.
C6_NoRenderFromOldSet ==
    /\ ~obs.stale
    /\ \A t \in heat.timers : heat.mounted /\ t.c = Closure(page)
    /\ \A o \in heat.layers : heat.mounted /\ o.c = Closure(page)
    /\ obs.rendersSince >= 1 => The(obs.lastRender).c = Closure(page)

\* C6 witness: a data or layer change cancelled a pending render and the next
\* render executed used the new set.
C6_Witness_NewSetRendered ==
    /\ obs.cancelled
    /\ obs.rendersSince = 1
    /\ The(obs.lastRender).c = Closure(page)
    /\ \E o \in heat.layers : o.c.data = page.data

\* C7: at most one overlay is on the map; it is the one the last render added,
\* anchored to the bounds the map had when that render executed, and it differs
\* from the current viewport only while a render is pending.
C7_AtMostOneOverlay ==
    /\ Cardinality(heat.layers) <= 1
    /\ \A o \in heat.layers :
          /\ o.id = heat.overlayRef
          /\ obs.lastRender # None
          /\ o.bounds = The(obs.lastRender).bounds
          /\ o.bounds # view => heat.timers # {}

\* C7 witness: a render removed the overlay of the previous render and added
\* its own at the new viewport.
C7_Witness_OverlayReplaced ==
    /\ obs.lastRender # None
    /\ The(obs.lastRender).replaced
    /\ \E o \in heat.layers : o.bounds = view /\ view # InitialBounds

\* C8: while the sample set is empty, no overlay is on the map, no render is
\* pending and no handler is registered, whatever viewport events arrive.
C8_EmptySetNoOverlay ==
    IsEmpty(page.data) =>
        /\ heat.layers = {}
        /\ heat.timers = {}
        /\ heat.listeners = {}
        /\ ~heat.mounted

\* C8 witness: an overlay had been drawn, the set became empty, and a viewport
\* event arrived with the map shown.
C8_Witness_EmptyAfterDrawn ==
    /\ IsEmpty(page.data)
    /\ MapShown(page)
    /\ obs.drawn
    /\ obs.emptyEvents

\* The blocks the loop has been through, and what idwInterpolate gave for one
Processed == IF raster.phase = "idle" THEN {} ELSE 1 .. (raster.cursor - 1)
Covered(k) == IsPointInBounds(CellLat(k), CellLon(k))
Interpolated(k) == IdwInterpolate(CellLat(k), CellLon(k), raster.data)
HasNaN(k) == Covered(k) /\ Interpolated(k) # None /\ The(Interpolated(k)).nan
HasValue(k) == Covered(k) /\ Interpolated(k) # None /\ ~The(Interpolated(k)).nan

\* C9: a block whose interpolated value is NaN keeps the pixels createImageData
\* gave it, and every block with a numeric interpolated value is painted.
C9_NaNCellLeftUnpainted ==
    \A k \in Processed :
        /\ HasNaN(k) => raster.pixels[k] = Unpainted
        /\ HasValue(k) => raster.pixels[k] # Unpainted

\* C9, the part about the other blocks: a NaN block does not stop the pass, and
\* every block with a numeric interpolated value is painted opaque enough to see.
C9_OtherCellsPainted ==
    /\ \A k \in Processed : HasValue(k) => raster.pixels[k].a >= AlphaFloor
    /\ raster.phase = "done" => raster.cursor = CellCount + 1

\* C10: once the Map has loaded the boundary, a painted block's coordinate
\* passes isPointInPolygon against it.
C10_PaintedOnlyInsidePolygon ==
    \A k \in Processed :
        (raster.boundary # None /\ raster.pixels[k] # Unpainted) =>
            IsPointInPolygon(<<CellLon(k), CellLat(k)>>, The(raster.boundary))

\* C10, what the code does ensure: a painted block lies inside the rectangle of
\* isPointInBounds.
C10_PaintedOnlyInsideBounds ==
    \A k \in Processed : raster.pixels[k] # Unpainted => Covered(k)

\* C11: a request whose layer is missing or is neither 'moisture' nor
\* 'temperature' is answered 400 with the error body, and handling it reads
\* and writes no cache entry, loads no boundary and issues no upstream fetch.
InvalidLayerAnswered ==
    \A r \in Slots :
        (req[r].pc # "idle" /\ req[r].layer \notin {"moisture", "temperature"}) =>
            /\ req[r].kind = "invalid" /\ req[r].pc = "done"
            /\ req[r].resp = ErrorResponse(400)
            /\ ~req[r].hit /\ ~req[r].stored /\ req[r].src = None
            /\ req[r].boundaryLoads = 0 /\ req[r].upstream = 0 /\ req[r].inflight = 0

InvalidLayerLeavesCache ==
    \A r \in Slots :
        (req'[r] # req[r] /\ req'[r].layer \notin {"moisture", "temperature"}) =>
            /\ cache' = cache
            /\ writer' = writer

C11_InvalidLayerRejected == []InvalidLayerAnswered /\ [][InvalidLayerLeavesCache]_vars

\* C11 witness: a request for the layer 'wind' was answered while the cache
\* held an entry that had already expired and stayed where it was.
C11_Witness_RejectedWithCacheUntouched ==
    \E r \in Slots :
        /\ req[r].kind = "invalid" /\ req[r].layer = "wind"
        /\ \E k \in DOMAIN cache : IsExpired(cache[k], now)

\* C12: fetchSoilForecast issues at most maxRetries+1 requests, waits before
\* every retry, and returns a forecast result or null, whatever the upstream
\* answers.
C12_BoundedSpacedRetries ==
    /\ fsf.requests <= fsf.maxRetries + 1
    /\ \A i \in DOMAIN fsf.spacing : fsf.spacing[i] > 0
    /\ fsf.pc = "returned" => fsf.result \in {"forecast", "null"}

\* C12, the parts that hold: the number of requests, the returned value, and
\* termination of every call.
C12_AtMostMaxRetriesPlusOne ==
    /\ fsf.requests <= fsf.maxRetries + 1
    /\ fsf.attempt <= fsf.maxRetries + 1
    /\ fsf.pc = "returned" => fsf.result \in {"forecast", "null"}

C12_CallReturns == (fsf.pc # "idle") ~> (fsf.pc = "returned")

\* C12, with the upstream errors whose message does not contain "429": every
\* retry follows a wait of at least one second.
C12_RetriesSpacedUnlessMessageHas429 ==
    (\A i \in DOMAIN fsf.outcomes : ~fsf.outcomes[i].has429) =>
        \A i \in DOMAIN fsf.spacing : fsf.spacing[i] >= ErrorWaitMs

\* C13: the upstream calls of one request are batched, on the forecast and on
\* the current-conditions path alike: at most BATCH_SIZE point fetches are in
\* flight, a wait of DELAY_MS follows every batch but the last, and nothing is
\* in flight during the wait.
C13_UpstreamBatched ==
    \A r \in Slots :
        /\ req[r].inflight <= BATCH_SIZE
        /\ req[r].pc = "delay" =>
              /\ req[r].inflight = 0
              /\ req[r].i + BATCH_SIZE < Len(GridPoints(req[r].kind))
              /\ req[r].due <= now + DELAY_MS

\* C13 on the forecast path alone, where it holds, with the step that starts
\* batch k+1: it is taken DELAY_MS or more after batch k settled.
C13_ForecastBatched ==
    \A r \in Slots :
        req[r].kind = "forecast" =>
            /\ req[r].inflight <= BATCH_SIZE
            /\ req[r].pc = "delay" =>
                  /\ req[r].inflight = 0
                  /\ req[r].i + BATCH_SIZE < Len(GridPoints("forecast"))
                  /\ req[r].due <= now + DELAY_MS
            /\ (req[r].pc = "fetching" /\ req[r].i > 0) =>
                  Len(req[r].results) = req[r].i

C13_NextBatchAfterDelay ==
    [][\A r \in Slots :
          (req[r].pc = "delay" /\ req'[r].pc = "fetching") =>
              (now >= req[r].due /\ req'[r].inflight <= BATCH_SIZE)]_vars

\* The lattice of a polygon's own bounding box at a step, filtered by the
\* point-in-polygon test: what C14 says generateGrid returns, as a set
OwnBoxLattice(polygon, step) ==
    LET box == GetBoundingBox(polygon)
    IN  {p \in {<<box.minLon + i * step, box.minLat + j * step>> :
                    i \in 0 .. ((box.maxLon - box.minLon) \div step),
                    j \in 0 .. ((box.maxLat - box.minLat) \div step)} :
            IsPointInPolygon(p, polygon)}

SuppliedPolygon == The(The(gg.boundary).geometry)
ReturnedForPolygon ==
    /\ gg.pc = "returned"
    /\ gg.boundary # None
    /\ The(gg.boundary).type = "Feature"
    /\ The(gg.boundary).geometry # None

\* C14: for a supplied boundary, generateGrid returns the lattice points of the
\* boundary's own bounding box (from its minimum latitude and longitude, in
\* steps of stepDegrees) that pass the point-in-polygon test; for the unit
\* square and step 0.5 these are exactly 4 points.
C14_ScansBoundaryBoundingBox ==
    ReturnedForPolygon =>
        /\ SeqRange(gg.accepted) = OwnBoxLattice(SuppliedPolygon, gg.step)
        /\ (SuppliedPolygon = UnitSquare /\ gg.step = 5000) => Len(gg.grid) = 4

\* C14 for the one boundary whose bounding box is the hard-coded one: the
\* static polygon of pavlodarBoundary.ts
C14_HoldsForStaticPolygon ==
    (ReturnedForPolygon /\ SuppliedPolygon = ToGridUnits(NorthKazakhstanBoundary)) =>
        SeqRange(gg.accepted) = OwnBoxLattice(SuppliedPolygon, gg.step)

\* C14: the unit square has 4 lattice points of its own at step 0.5
C14_UnitSquareHasFourOfItsOwn ==
    (ReturnedForPolygon /\ SuppliedPolygon = UnitSquare) =>
        Cardinality(OwnBoxLattice(UnitSquare, 5000)) = 4

\* The lattice generatePavlodarGrid walks at a step
OnScannedLattice(p, step) ==
    /\ p[1] >= lonMin /\ p[1] <= lonMax /\ (p[1] - lonMin) % step = 0
    /\ p[2] >= latMin /\ p[2] <= latMax /\ (p[2] - latMin) % step = 0

\* C15: with a boundary supplied, every point generateGrid has pushed comes
\* from a lattice point for which isPointInAnyPolygon is true; no lattice point
\* the test rejects is returned.
C15_OnlyAcceptedLatticePoints ==
    (gg.pc \in {"filter", "returned"} /\ gg.boundary # None) =>
        /\ Len(gg.grid) = Len(gg.accepted)
        /\ \A i \in DOMAIN gg.grid :
              /\ OnScannedLattice(gg.accepted[i], gg.step)
              /\ IsPointInAnyPolygon(gg.accepted[i], The(gg.boundary))
              /\ gg.grid[i] = GridPointRounded2(gg.accepted[i])

\* C15 witness: a grid was returned for the fallback rectangle; it has points,
\* and fewer than the lattice has.
C15_Witness_SomeKeptSomeRejected ==
    /\ gg.pc = "returned"
    /\ gg.boundary = Some(Feature(Some(ToGridUnits(SimpleBoundary))))
    /\ Len(gg.grid) > 0
    /\ Len(gg.grid) < ((latMax - latMin) \div gg.step + 1) * ((lonMax - lonMin) \div gg.step + 1)

\* Row-major order of a sequence of grid points: latitude ascending and,
\* within one latitude, longitude ascending
RowMajor(grid) ==
    \A i \in 1 .. Len(grid) - 1 :
        \/ grid[i].lat < grid[i + 1].lat
        \/ grid[i].lat = grid[i + 1].lat /\ grid[i].lon <= grid[i + 1].lon

C17_RoundedToThreeDecimals ==
    gg.pc # "idle" =>
        /\ Len(gg.grid) = Len(gg.accepted)
        /\ \A i \in DOMAIN gg.grid : gg.grid[i] = GridPointRounded3(gg.accepted[i])
        /\ \A i, j \in DOMAIN gg.grid :
              GridPointRounded3(gg.accepted[i]) # GridPointRounded3(gg.accepted[j])
                  => gg.grid[i] # gg.grid[j]

\* C17 for the static grid of pavlodarBoundary.ts, which does round to 3 decimals
C17_StaticGridRoundsToThree ==
    gg.pc \in {"static", "returnedStatic"} =>
        /\ Len(gg.grid) = Len(gg.accepted)
        /\ \A i \in DOMAIN gg.grid : gg.grid[i] = GridPointRounded3(gg.accepted[i])

\* C17 for the steps of at most two decimals, where rounding to two and to
\* three decimals give the same point
C17_SameForTwoDecimalSteps ==
    (gg.pc # "idle" /\ gg.step % 100 = 0) =>
        \A i \in DOMAIN gg.grid : gg.grid[i] = GridPointRounded3(gg.accepted[i])

\* The file cases C18 names: the file cannot be read or parsed, or no feature
\* is the region
LoadFails(file) ==
    \/ file.kind \in {"unreadable", "unparsable", "noFeatures"}
    \/ \A i \in DOMAIN file.features : file.features[i].shapeName # RegionName

\* C18: boundary loading never fails: if the GeoJSON file is unreadable or
\* unparsable or the region is not in it, fetchNorthKazakhstanBoundary returns
\* the hardcoded rectangle instead of throwing; GET /boundary always answers
\* success:true with a boundary, and /soil-data never answers 500 because of
\* the boundary.
C18_BoundaryLoadNeverFails ==
    /\ bl.loaded # None =>
          /\ ~The(bl.loaded).threw
          /\ The(bl.loaded).boundary # None
          /\ LoadFails(bl.file) => The(bl.loaded).boundary = Some(GetSimpleBoundary)
    /\ (bl.caller = "boundary" /\ bl.pc = "done") =>
          /\ bl.resp.status = 200 /\ bl.resp.success
          /\ bl.resp.boundary # None
    /\ (bl.caller = "soil-data" /\ bl.pc # "loading") =>
          /\ bl.pc = "fetching"
          /\ bl.resp.status # 500

\* C18 witness: GET /boundary has answered with the fallback rectangle for a
\* file that is not JSON.
C18_Witness_FallbackServed ==
    /\ bl.caller = "boundary" /\ bl.pc = "done"
    /\ bl.file.kind = "unparsable"
    /\ bl.resp.boundary = Some(GetSimpleBoundary)

\* The edges of a ring as point pairs, whichever way the ring is written
RingEdges(ring) ==
    {e \in {{ring[i], ring[(i % Len(ring)) + 1]} : i \in DOMAIN ring} : Cardinality(e) = 2}

\* p lies on the segment e
OnEdge(p, e) ==
    \E a, b \in e :
        /\ a # b
        /\ (b[1] - a[1]) * (p[2] - a[2]) = (b[2] - a[2]) * (p[1] - a[1])
        /\ (p[1] - a[1]) * (p[1] - b[1]) <= 0
        /\ (p[2] - a[2]) * (p[2] - b[2]) <= 0

\* The horizontal ray from p towards +longitude crosses e: e has an end above
\* the ray and an end on or below it, and meets the ray's line east of p
RayCrosses(p, e) ==
    \E up, low \in e :
        /\ up[2] > p[2] /\ low[2] <= p[2]
        /\ (p[1] - low[1]) * (up[2] - low[2]) < (p[2] - low[2]) * (up[1] - low[1])

OddCrossings(p, ring) ==
    Cardinality({e \in RingEdges(ring) : RayCrosses(p, e)}) % 2 = 1

OffRing(p, ring) == \A e \in RingEdges(ring) : ~OnEdge(p, e)

\* C19: for a simple ring, convex or not, and a test point on no vertex and no
\* edge, isPointInPolygon is true exactly when the horizontal ray towards
\* +longitude crosses an odd number of ring edges, whatever the orientation,
\* the starting vertex and the presence of the closing vertex.
C19_EvenOddRule ==
    (geo.fn = "isPointInPolygon" /\ geo.base # <<>> /\ OffRing(geo.point, geo.base)) =>
        /\ ~geo.result.raised
        /\ geo.result.value = OddCrossings(geo.point, geo.base)

\* C19 witness: the L-shaped ring, written clockwise from another vertex and
\* without its closing vertex, and the point <<1, 2>>, whose ray runs through
\* two vertices: found inside.
C19_Witness_RayThroughVertex ==
    /\ geo.fn = "isPointInPolygon"
    /\ geo.base = << <<0, 0>>, <<4, 0>>, <<4, 2>>, <<2, 2>>, <<2, 4>>, <<0, 4>> >>
    /\ geo.polygon = Some(<<Reverse(Rotate(geo.base, 2))>>)
    /\ geo.point = <<1, 2>>
    /\ geo.result.value

\* C19, from the other side: for a point off the ring the ray towards
\* -longitude crosses an odd number of edges exactly when the ray towards
\* +longitude does, so the answer is that of the even-odd rule for the region.
RayCrossesWestward(p, e) ==
    \E up, low \in e :
        /\ up[2] > p[2] /\ low[2] <= p[2]
        /\ (p[1] - low[1]) * (up[2] - low[2]) > (p[2] - low[2]) * (up[1] - low[1])

C19_SameParityWestward ==
    (geo.fn = "isPointInPolygon" /\ geo.base # <<>> /\ OffRing(geo.point, geo.base)) =>
        geo.result.value =
            (Cardinality({e \in RingEdges(geo.base) : RayCrossesWestward(geo.point, e)}) % 2 = 1)

\* The polygon argument has no ring: it is null, or an array without a first element
RingMissing(polygon) == polygon = None \/ polygon = Some(<<>>)
RingLength(polygon) == IF RingMissing(polygon) THEN 0 ELSE Len(The(polygon)[1])

\* C20: isPointInPolygon returns false for a missing ring and for a ring of
\* fewer than 3 points; getBoundingBox returns the default box (51.8 .. 55.2,
\* 66.0 .. 72.0) for a missing and for an empty ring; neither raises.
C20_DegenerateRingsFailSoft ==
    /\ (geo.fn = "isPointInPolygon" /\ RingLength(geo.polygon) < 3) =>
          geo.result = [raised |-> FALSE, value |-> FALSE]
    /\ (geo.fn = "getBoundingBox" /\ RingLength(geo.polygon) = 0) =>
          geo.result = [raised |-> FALSE,
                        value |-> [minLat |-> 518000, maxLat |-> 552000,
                                   minLon |-> 660000, maxLon |-> 720000]]

\* C20 witness: getBoundingBox was called with an empty ring and answered
\* with a box.
C20_Witness_EmptyRingBoxed ==
    /\ geo.fn = "getBoundingBox"
    /\ geo.polygon = Some(<< <<>> >>)
    /\ geo.result.value.minLat < geo.result.value.maxLat

\* C20, a second witness: isPointInPolygon was called with a ring of two
\* points and answered false.
C20_ShortRingAnsweredFalse ==
    /\ geo.fn = "isPointInPolygon"
    /\ RingLength(geo.polygon) = 2
    /\ ~geo.result.value

\* C21: simplifyPolygon(ring, 0) returns the ring unchanged: the same vertices
\* in the same order, for every ring.
C21_ZeroToleranceIsIdentity ==
    (dp.pc = "done" /\ dp.tolerance = 0) => dp.result = dp.polygon

\* C21 for the rings in which no vertex lies on the segment between its
\* neighbours: these do come back unchanged.
NoVertexOnChord(ring) ==
    \A i \in 2 .. Len(ring) - 1 :
        DistToSegmentSqScaled(ring[i], ring[i - 1], ring[i + 1]) > 0

C21_IdentityWithoutFlatVertices ==
    (dp.pc = "done" /\ dp.tolerance = 0 /\ NoVertexOnChord(dp.polygon[1])) =>
        dp.result = dp.polygon

\* C22: the recursion of douglasPeucker terminates for every ring and every
\* tolerance: each recursive call receives strictly fewer points than its
\* caller, so the depth stays within the ring size and the call returns.
C22_RecursionShrinks ==
    dp.pc # "idle" =>
        /\ dp.shrinking
        /\ dp.deepest <= Len(dp.polygon[1])
        /\ dp.pc # "overflow"

\* C22 for the tolerances that are not negative, where it holds
C22_ShrinksForNonNegativeTolerance ==
    dp.tolerance >= 0 =>
        /\ dp.shrinking
        /\ dp.pc # "idle" => dp.deepest <= Len(dp.polygon[1])
        /\ dp.pc # "overflow"
        /\ \A i \in 1 .. Len(dp.stack) : Len(dp.stack[i].points) >= 2

C22_ReturnsForNonNegativeTolerance ==
    (dp.pc = "running" /\ dp.tolerance >= 0) ~> (dp.pc = "done")

\* The samples of the last idwInterpolate call that are within 0.001 degree of
\* the target, and those within maxDistance, by their place in the list
SamplesOnTarget == {i \in 1 .. Len(idw.pts) : DistSq(idw.lat, idw.lon, idw.pts[i]) < 4}

SamplesInReach ==
    {i \in 1 .. Len(idw.pts) :
        /\ idw.maxDistance >= 0
        /\ DistSq(idw.lat, idw.lon, idw.pts[i]) <= idw.maxDistance * idw.maxDistance}

\* C23: when the target lies within 0.001 degree of a sample, idwInterpolate
\* returns exactly that sample's value, whatever other samples are present,
\* wherever the sample sits in the list, whatever power and maxDistance.
C23_OnSampleReturnsItsValue ==
    idw.called => \A i \in SamplesOnTarget : idw.result = Some(idw.pts[i].value)

\* C23 as the code has it: if some sample within 0.001 degree of the target
\* is also within maxDistance, the value returned is that of the first such
\* sample in the list, whatever the power and the samples before it.
C23_FirstOnSampleInReachWins ==
    (idw.called /\ SamplesOnTarget \cap SamplesInReach # {}) =>
        idw.result = Some(idw.pts[MinOf(SamplesOnTarget \cap SamplesInReach)].value)

\* With the default maxDistance, a sample within 0.001 degree that comes
\* second in the list, after a sample further away, decides the result
C23_Witness_SecondSampleOnTarget ==
    /\ idw.called
    /\ idw.maxDistance = 4000
    /\ idw.power = 4
    /\ Len(idw.pts) = 2
    /\ SamplesOnTarget = {2}
    /\ idw.pts[1].value = Num(0)
    /\ idw.result = Some(Num(100))

\* C24: idwInterpolate returns null exactly when no sample lies within
\* maxDistance of the target (the empty list included), and a number as soon
\* as a sample with a finite value lies within maxDistance.
C24_NullIffNothingInReach ==
    idw.called =>
        /\ idw.result = None <=> SamplesInReach = {}
        /\ (\E i \in SamplesInReach : ~idw.pts[i].value.nan) => idw.result # None

\* A sample exactly maxDistance away counts as within, and the result is a number
C24_Witness_SampleAtMaxDistance ==
    /\ idw.called
    /\ idw.maxDistance = 2
    /\ Len(idw.pts) = 1
    /\ DistSq(idw.lat, idw.lon, idw.pts[1]) = 4
    /\ idw.result = Some(Num(100))

\* An empty list, and a list whose samples are all out of reach, give null
C24_Witness_NullOutOfReach ==
    /\ idw.called
    /\ Len(idw.pts) = 2
    /\ SamplesInReach = {}
    /\ idw.maxDistance = 2
    /\ idw.result = None

\* The last call gave two samples with the values 0 and 100, the target in
\* the middle between them, and power 2
MidpointCall ==
    /\ idw.called
    /\ idw.power = 2
    /\ Len(idw.pts) = 2
    /\ {idw.pts[1].value, idw.pts[2].value} = {Num(0), Num(100)}
    /\ 2 * idw.lat = idw.pts[1].lat + idw.pts[2].lat
    /\ 2 * idw.lon = idw.pts[1].lon + idw.pts[2].lon

\* The squared distance from the midpoint to either sample
HalfDistSq == DistSq(idw.lat, idw.lon, idw.pts[1])

ResultIs(v) ==
    /\ idw.result # None
    /\ ~The(idw.result).nan
    /\ The(idw.result).n = v * The(idw.result).d

\* C25 as stated: for two samples with the values 0 and 100 any distance d
\* apart, idwInterpolate at their midpoint with power 2 returns 50.
C25_MidpointIsFifty == MidpointCall => ResultIs(50)

\* C25: for two samples with the values 0 and 100 a distance d apart, with
\* d / 2 at least 0.001 degree and at most maxDistance, idwInterpolate at
\* their midpoint with power 2 returns 50.
C25_MidpointIsFiftyInReach ==
    (MidpointCall /\ HalfDistSq >= 4 /\ 1 \in SamplesInReach) => ResultIs(50)

\* Samples 0.002 degree apart with maxDistance 0.001 degree: the closest pair
\* that is averaged
C25_Witness_ClosestAveragedPair ==
    /\ MidpointCall
    /\ HalfDistSq = 4
    /\ idw.maxDistance = 2
    /\ idw.pts[1].value = Num(100)
    /\ ResultIs(50)

\* Closer than that, the midpoint takes the value of the first sample; further
\* than 2 * maxDistance apart, there is no value
C25_Witness_OutsideTheRange ==
    /\ MidpointCall
    /\ \/ HalfDistSq < 4 /\ idw.result = Some(idw.pts[1].value)
       \/ 1 \notin SamplesInReach /\ idw.result = None

\* C26: while the application shows the map, the sample data is re-fetched
\* every hour, and at most one refresh timer is active at any time.
C26_HourlyRefreshOneTimer ==
    /\ (~app.loading /\ ~app.error) => app.hour = app.lastFetch
    /\ Cardinality(app.intervals) <= 1

\* C26 in the application: Home passes a forecast length of 3 or more, so the
\* Map never creates the interval
C26_NoTimerInTheApp == app.intervals = {}

\* C28: once no /soil-data request is in flight, the sample set the Map shows
\* is the response to the request for the selected layer, forecast length and
\* day, whatever order the responses arrived in.
C28_ShowsSelectedWhenQuiet ==
    (app.inflight = <<>> /\ ~app.error) => app.data = Some(MapProps(app))

\* C28 when no response overtook an earlier request of the same Map instance
C28_ShowsSelectedIfAnsweredInOrder ==
    (app.inflight = <<>> /\ ~app.error /\ ~app.overtaken) => app.data = Some(MapProps(app))

\* C27: in a forecast response for selected day k each returned point's value,
\* timestamp and date are that point's noon sample of day k (hourly index
\* 24 * k + 12), also when the noon sample of an earlier day is null or
\* missing; a point with no sample for day k is omitted.
C27_SelectedDayIsNoonOfDayK ==
    fx.pc = "answered" =>
        IF HasNoon(fx.values, fx.selectedDay)
        THEN fx.point = Some([value |-> ProcessedValue(fx.layer,
                                                       The(fx.values.noon[fx.selectedDay])),
                              timestamp |-> NoonIndex(fx.selectedDay),
                              date |-> fx.selectedDay])
        ELSE fx.point = None

\* What the handler returns: the (k+1)-th day that has a noon value
NoonDays == {d \in 0 .. MaxForecastDays - 1 : HasNoon(fx.values, d)}

C27_ReturnsTheKthDayWithANoonValue ==
    fx.pc = "answered" =>
        \/ fx.point = None /\ Cardinality(NoonDays) <= fx.selectedDay
        \/ \E d \in NoonDays :
              /\ Cardinality({e \in NoonDays : e < d}) = fx.selectedDay
              /\ fx.point # None
              /\ The(fx.point).date = d
              /\ The(fx.point).timestamp = NoonIndex(d)

\* C27 holds when every day up to day k has a noon value
C27_HoldsWithoutEarlierGaps ==
    (fx.pc = "answered" /\ \A d \in 0 .. fx.selectedDay : HasNoon(fx.values, d)) =>
        /\ fx.point # None
        /\ The(fx.point).date = fx.selectedDay
        /\ The(fx.point).timestamp = NoonIndex(fx.selectedDay)

\* The response a request is given out of a stored pass: on the current path the
\* points that succeeded, on the forecast path the same if every point
\* succeeded and the handler's 500 if one did not
FromStoredPass(q) ==
    LET info == The(q.src)
    IN  IF q.kind = "forecast" /\ Cardinality(info.ok) < info.total
        THEN q.resp.status = 500
        ELSE /\ q.resp.status = 200
             /\ q.resp.totalPoints = info.total
             /\ PointsOf(q.resp.data) \subseteq info.ok
             /\ (q.kind = "current" \/ q.day < q.days) => PointsOf(q.resp.data) = info.ok

\* C29: the handler stores the result of every upstream pass that completes,
\* whatever the number of points that succeeded, zero included; until the entry
\* expires every request for its key is answered out of that stored pass with
\* no upstream call.
C29_EveryPassStoredAndServed ==
    \A r \in Served :
        /\ (req[r].pc = "done" /\ ~req[r].hit) => req[r].stored
        /\ req[r].fresh => req[r].hit
        /\ req[r].hit =>
              /\ req[r].upstream = 0
              /\ req[r].src # None
              /\ FromStoredPass(req[r])

\* A pass in which no point succeeded was stored and a later request was
\* answered out of it
C29_Witness_EmptyPassServedFromCache ==
    \E r \in Answered :
        /\ req[r].hit
        /\ The(req[r].src).ok = {}
        /\ req[r].kind = "current"
        /\ req[r].resp.status = 200 /\ req[r].resp.validPoints = 0
        /\ req[r].upstream = 0

\* C30: after CanvasHeatMap has unmounted, its overlay is off the map, its
\* zoomend, moveend and resize handlers are unregistered, and no render that
\* was scheduled before the unmount is pending, so none fires afterwards.
C30_UnmountLeavesNothingBehind ==
    ~heat.mounted =>
        /\ heat.layers = {}
        /\ heat.listeners = {}
        /\ heat.timers = {}

\* The component unmounted for a reload while its overlay was on the map and a
\* render was pending; the sample set it had is still the Map's
C30_Witness_UnmountedWithRenderPending ==
    /\ ~heat.mounted
    /\ obs.swept
    /\ page.loading
    /\ ~IsEmpty(page.data)
    /\ heat.overlayRef # 0
    /\ heat.renderTimeoutRef # 0

====
